---- MODULE Spec2Model ----
(***************************************************************************)
(* CobraPinger: the ingestion pipeline of cobrapinger.py (run_program_once *)
(* and the functions it calls) over the DatabaseManager of database.py.    *)
(*                                                                         *)
(* One action per step of run_program_once's loop body; the external       *)
(* collaborators (feed, transcript service, OpenAI client, Discord         *)
(* webhook) answer nondeterministically within the environment's budget.   *)
(* SpecDb is the DatabaseManager on its own, called with any arguments.    *)
(***************************************************************************)
EXTENDS Integers, Sequences, FiniteSets, TLC

(* ---------------- bounds of the model ---------------- *)
\* check cycles (calls of run_program_once) in one behaviour
MaxCycles == 2
\* distinct videos the channels upload in one behaviour
MaxUploads == 2
\* calls to a collaborator (transcript service, OpenAI client, webhook) that go
\* wrong in one behaviour; one fetch_transcript call counts once
MaxFaults == 1
\* the same budgets for the long-run (dedup history) specification
MaxCyclesD == 7
MaxUploadsD == 6
\* DatabaseManager calls in one behaviour of the gateway specification, and the
\* distinct videos they are about
MaxDbCalls == 4
MaxDbVideos == 2
\* embedding rows an index is built from or grown to
MaxIxRows == 2

(* ---------------- program constants ---------------- *)
\* cobrapinger.py:266  if len(last_video_data) > 5
HistoryCap == 5
\* cobrapinger.py:83  def fetch_transcript(video_id, retries=5, delay=2)
Retries == 5
Delay == 2

\* an optional value: <<>> is Python's None, <<x>> is the value x
Nothing == <<>>
Some(x) == <<x>>
\* embedding_index.py:32  def find_similar(index, id_list, query_vec, k: int = 3)
DefaultK == 3
\* the distance FAISS reports for a result slot it could not fill (FLT_MAX)
FltMax == 1000

\* exc when no exception is in flight
NoExc == "none"

\* config.json: two tracked channels, the second with summarization off
Youtubers ==
  << [name |-> "a", channel_id |-> "UCa", system_prompt |-> "pa", openai_enabled |-> TRUE],
     [name |-> "b", channel_id |-> "UCb", system_prompt |-> "pb", openai_enabled |-> FALSE] >>

\* a text with the quoted passages (**"..."**) it carries
Text(w) == [words |-> w, quotes |-> <<>>]

\* mutant: the placeholder of the other branch
NoTranscriptFoundWrong == Text("No summary available.")

NoTranscriptFound == Text("No transcript found.")
NoSummaryAvailable == Text("No summary available.")
OpenAIDisabled == Text("OpenAI functionality is disabled for this YouTuber.")

(* ---------------- helpers on sequences ---------------- *)
RECURSIVE SeqSum(_)
SeqSum(s) == IF s = <<>> THEN 0 ELSE Head(s) + SeqSum(Tail(s))

Range(s) == {s[k] : k \in 1..Len(s)}

\* " ".join(fragments): the fragments in order with one separator between
RECURSIVE Join(_)
Join(frags) ==
  IF frags = <<>> THEN <<>>
  ELSE IF Len(frags) = 1 THEN <<frags[1]>>
  ELSE <<frags[1], " ">> \o Join(Tail(frags))

\* str.lower() on one character of the model's alphabet
LowerChar(ch) == IF ch = "B" THEN "b" ELSE IF ch = "J" THEN "j" ELSE ch

Lower(s) == [k \in 1..Len(s) |-> LowerChar(s[k])]

\* str.strip(): drop leading and trailing blanks
RECURSIVE LStrip(_)
LStrip(s) == IF s # <<>> /\ Head(s) = " " THEN LStrip(Tail(s)) ELSE s

RECURSIVE RStrip(_)
RStrip(s) ==
  IF s # <<>> /\ s[Len(s)] = " " THEN RStrip(SubSeq(s, 1, Len(s) - 1)) ELSE s

Strip(s) == RStrip(LStrip(s))

(* ---------------- the feed ---------------- *)
\* the feed entry of the n-th uploaded video
Entry(n) ==
  [yt_videoid |-> <<"yt", n>>, title |-> <<"title", n>>,
   published |-> <<"pub", n>>, link |-> <<"link", n>>,
   media_thumbnail |-> <<"thumb", n>>]

(* ---------------- DatabaseManager ---------------- *)
\* the schema (schema.sql and the migrations are not part of the sources read):
\* video.youtube_id is UNIQUE, video_embedding.video_id is the key of its table
video_youtube_id_unique == TRUE
video_embedding_video_id_key == TRUE

EmptyDb ==
  [channel |-> <<>>, video |-> <<>>, transcript |-> <<>>, summary |-> <<>>,
   quote |-> <<>>, video_embedding |-> <<>>, topic |-> <<>>,
   video_topic |-> {}, advisor_note |-> <<>>]

\* SELECT id ... WHERE youtube_id = ?; INSERT when there is no such row
get_or_create_channel(d, youtube_id, name) ==
  LET hit == SelectSeq(d.channel, LAMBDA r : r.youtube_id = youtube_id)
  IN IF hit # <<>>
     THEN [db |-> d, ret |-> hit[1].id]
     ELSE LET id == Len(d.channel) + 1
          IN [db |-> [d EXCEPT !.channel =
                         Append(@, [id |-> id, youtube_id |-> youtube_id, name |-> name])],
              ret |-> id]

\* mutant: cursor.lastrowid in place of the SELECT; 0 when the INSERT is ignored
store_video_lastrowid(d, youtube_id, channel_id, title, published_date, thumbnail_url) ==
  LET exists == \E k \in 1..Len(d.video) : d.video[k].youtube_id = youtube_id
  IN IF exists THEN [db |-> d, ret |-> 0, raised |-> FALSE]
     ELSE [db |-> [d EXCEPT !.video =
                     Append(@, [id |-> Len(d.video) + 1, youtube_id |-> youtube_id,
                                channel_id |-> channel_id, title |-> title,
                                youtube_created_at |-> published_date,
                                thumbnail_url |-> thumbnail_url])],
           ret |-> Len(d.video) + 1, raised |-> FALSE]

\* mutant: INSERT OR REPLACE, the row of a known video is written anew
store_video_replace(d, youtube_id, channel_id, title, published_date, thumbnail_url) ==
  LET id == IF d.video = <<>> THEN 1 ELSE d.video[Len(d.video)].id + 1
  IN [db |-> [d EXCEPT !.video =
                SelectSeq(@, LAMBDA r : r.youtube_id # youtube_id)
                  \o <<[id |-> id, youtube_id |-> youtube_id,
                        channel_id |-> channel_id, title |-> title,
                        youtube_created_at |-> published_date,
                        thumbnail_url |-> thumbnail_url]>>],
      ret |-> id, raised |-> FALSE]

\* INSERT OR IGNORE (ignored when youtube_id is taken), then SELECT id and
\* cursor.fetchone()[0], which raises when the SELECT finds no row
store_video(d, youtube_id, channel_id, title, published_date, thumbnail_url) ==
  LET exists == /\ video_youtube_id_unique
                /\ \E k \in 1..Len(d.video) : d.video[k].youtube_id = youtube_id
      d2 == IF exists THEN d
            ELSE [d EXCEPT !.video =
                    Append(@, [id |-> Len(d.video) + 1, youtube_id |-> youtube_id,
                               channel_id |-> channel_id, title |-> title,
                               youtube_created_at |-> published_date,
                               thumbnail_url |-> thumbnail_url])]
      hit == SelectSeq(d2.video, LAMBDA r : r.youtube_id = youtube_id)
  IN [db |-> d2, ret |-> IF hit # <<>> THEN hit[1].id ELSE 0, raised |-> hit = <<>>]

\* INSERT INTO transcript, with no conflict clause: append-only
store_transcript(d, video_id, content) ==
  [d EXCEPT !.transcript = Append(@, [video_id |-> video_id, content |-> content])]

\* the quotes the pattern \*\*"([^"]+)"\*\* finds in a summary; a summary text
\* is a record of its words and of the quoted passages it carries
Quotes(content) == content.quotes

\* INSERT INTO summary, then one quote row per match
store_summary(d, video_id, content) ==
  LET qs == Quotes(content)
  IN [d EXCEPT !.summary = Append(@, [video_id |-> video_id, content |-> content]),
               !.quote = @ \o [k \in 1..Len(qs) |-> [video_id |-> video_id, content |-> qs[k]]]]

\* the numbers a vector is made of
Numbers == 0..9

\* json.dumps of a list of numbers: the numerals in order
json_dumps(embedding) == [k \in 1..Len(embedding) |-> ToString(embedding[k])]

\* json.loads: each numeral read back as the number it writes
json_loads(text) ==
  [k \in 1..Len(text) |-> CHOOSE n \in Numbers : ToString(n) = text[k]]

\* mutant: a plain INSERT, the earlier row of the video stays
store_embedding_insert(d, video_id, embedding) ==
  [d EXCEPT !.video_embedding =
     @ \o <<[video_id |-> video_id, embedding |-> json_dumps(embedding)]>>]

\* INSERT OR REPLACE of (video_id, json.dumps(embedding)): the row of the same
\* video_id is replaced
store_embedding(d, video_id, embedding) ==
  [d EXCEPT !.video_embedding =
     SelectSeq(@, LAMBDA r : ~(video_embedding_video_id_key /\ r.video_id = video_id))
       \o <<[video_id |-> video_id, embedding |-> json_dumps(embedding)]>>]

\* SELECT embedding ... WHERE video_id = ?; json.loads of the row, else None
get_embedding(d, video_id) ==
  LET hit == SelectSeq(d.video_embedding, LAMBDA r : r.video_id = video_id)
  IN IF hit # <<>> THEN Some(json_loads(hit[1].embedding)) ELSE Nothing

\* mutant: the name is looked up and stored as it was passed
get_or_create_topic_raw(d, topic_name) ==
  LET hit == SelectSeq(d.topic, LAMBDA r : Strip(r.name) = topic_name)
  IN IF hit # <<>>
     THEN [db |-> d, ret |-> hit[1].id]
     ELSE LET id == Len(d.topic) + 1
          IN [db |-> [d EXCEPT !.topic = Append(@, [id |-> id, name |-> topic_name])],
              ret |-> id]

\* topic_name.lower().strip(); SELECT ... WHERE TRIM(name) = ?; INSERT when absent
get_or_create_topic(d, topic_name) ==
  LET nm == Strip(Lower(topic_name))
      hit == SelectSeq(d.topic, LAMBDA r : Strip(r.name) = nm)
  IN IF hit # <<>>
     THEN [db |-> d, ret |-> hit[1].id]
     ELSE LET id == Len(d.topic) + 1
          IN [db |-> [d EXCEPT !.topic = Append(@, [id |-> id, name |-> nm])],
              ret |-> id]

\* mutant: execute in place of executemany, only the first pair is inserted
link_video_topics_first(d, video_id, topic_ids) ==
  [d EXCEPT !.video_topic =
     @ \cup {[video_id |-> video_id, topic_id |-> topic_ids[k]] :
               k \in 1..(IF Len(topic_ids) > 0 THEN 1 ELSE 0)}]

\* INSERT OR IGNORE INTO video_topic for every topic id
link_video_topics(d, video_id, topic_ids) ==
  [d EXCEPT !.video_topic =
     @ \cup {[video_id |-> video_id, topic_id |-> topic_ids[k]] : k \in 1..Len(topic_ids)}]

\* called at cobrapinger.py:254; database.py does not define it. Append-only
\* insert of one row per (key, content) pair, after section 4.5 of the spec.
store_advisor_notes(d, video_id, notes) ==
  [d EXCEPT !.advisor_note =
     @ \o [k \in 1..Len(notes) |->
             [video_id |-> video_id, key |-> notes[k].key, content |-> notes[k].content]]]


(* ---------------- state ---------------- *)
VARIABLES
  pc,       \* position of the single thread
  mode,     \* "once" (menu choice 1) or "continuous" (choice 2, --auto)
  i,        \* index of the youtuber the for loop of run_program_once is at
  loc,      \* the locals of the loop body
  ft,       \* the locals of fetch_transcript and what it did
  exc,      \* the exception that ended the process, None when there is none
  config,   \* config.json: discord_webhook_url
  files,    \* <name>_last_video_data.json per youtuber
  tfiles,   \* transcript text files written by save_transcript_to_file
  db,       \* the SQLite tables
  outbox,   \* messages posted to the Discord webhook
  feed,     \* per youtuber, the videos uploaded so far (numbers)
  budget,   \* what the environment may still do
  ev,       \* calls made in the current loop iteration, in order
  started,  \* youtubers whose loop body started in the current cycle
  snap,     \* durable state when the current loop iteration began
  api,      \* DatabaseManager calls made by other callers: what they passed and got
  damaged,  \* youtubers whose history file exists but does not hold valid JSON
  processed,\* per youtuber, the videos whose loop body ran to its end, in order
  ix,       \* embedding_index.py: the FAISS index, the id list, the last search
  rp,       \* a reprocess_missing_* pass: its list of videos and its position
  web       \* web.py: invite codes, users and the register requests in flight

vars == <<pc, mode, i, loc, ft, exc, config, files, tfiles, db, outbox, feed,
          budget, ev, started, snap, api, damaged, processed, ix, rp, web>>

\* the state outside run_program_once and the DatabaseManager
outside == <<ix, rp, web>>

Names == {Youtubers[k].name : k \in 1..Len(Youtubers)}

NoLocals ==
  [last_video_data |-> <<>>, entries |-> <<>>, feed_failed |-> FALSE,
   new_video |-> Nothing, channel_id |-> 0,
   db_video_id |-> 0, transcript |-> Nothing, embedding |-> Nothing,
   topics |-> <<>>, summarized |-> Nothing, summary |-> Nothing, advisor_notes |-> <<>>]

NoFetch ==
  [attempt |-> 0, calls |-> 0, sleeps |-> <<>>, failed |-> FALSE, returned |-> FALSE,
   raised |-> FALSE, result |-> Nothing, log |-> <<>>]

\* nothing was called yet: per video and per channel the first call and the
\* number of calls, the topic calls made, per video the last vector stored,
\* and the last call
NoApi ==
  [video |-> [n \in 1..MaxDbVideos |-> Nothing],
   channel |-> [c \in {"UCa", "UCb"} |-> Nothing],
   topic |-> {},
   embedding |-> [v \in 1..MaxDbVideos |-> Nothing],
   last |-> Nothing]

\* no index was built, no pass is running, the web application is idle
NoIndex == [d |-> 0, vectors |-> <<>>, id_list |-> <<>>, rows |-> <<>>, results |-> Nothing]
NoPass ==
  [fn |-> "", videos |-> <<>>, no_summary |-> <<>>, at |-> 0, process_all |-> FALSE,
   began |-> {}, stored |-> <<>>, db0 |-> <<>>, passes |-> 0]
NoWeb == [invite_code |-> <<>>, user |-> <<>>, request |-> <<>>]

Durable == [files |-> files, tfiles |-> tfiles, db |-> db, outbox |-> outbox]

InitWith(cycles, uploads, faults) ==
  /\ pc = "menu"
  /\ mode = "once"
  /\ i = 0
  /\ loc = NoLocals
  /\ ft = NoFetch
  /\ exc = NoExc
  /\ config \in {[discord_webhook_url |-> u] : u \in {"", "hook"}}
  /\ files = [n \in Names |-> <<>>]
  /\ tfiles = {}
  /\ db = EmptyDb
  /\ outbox = <<>>
  /\ feed = [n \in Names |-> <<>>]
  /\ budget = [cycles |-> cycles, uploads |-> uploads, faults |-> faults]
  /\ ev = <<>>
  /\ started = {}
  /\ snap = [files |-> files, tfiles |-> tfiles, db |-> db, outbox |-> outbox]
  /\ api = NoApi
  /\ damaged = {}
  /\ processed = [n \in Names |-> <<>>]
  /\ ix = NoIndex
  /\ rp = NoPass
  /\ web = NoWeb

Init == InitWith(MaxCycles, MaxUploads, MaxFaults)

InitDedup == InitWith(MaxCyclesD, MaxUploadsD, 0)

Uploaded == SeqSum([k \in 1..Len(Youtubers) |-> Len(feed[Youtubers[k].name])])

youtuber == Youtubers[i]

(* ---------------- show_menu / run_program_continuously ---------------- *)
\* the operator starts a check cycle: choice 1, or choice 2 / --auto
StartRun ==
  /\ pc = "menu"
  /\ budget.cycles > 0
  /\ \E m \in {"once", "continuous"} : mode' = m
  /\ pc' = "load"
  /\ i' = 1
  /\ started' = {}
  /\ budget' = [budget EXCEPT !.cycles = @ - 1]
  /\ loc' = NoLocals /\ ft' = NoFetch /\ ev' = <<>>
  /\ UNCHANGED <<exc, config, files, tfiles, db, outbox, feed, snap, api, damaged, processed, outside>>


(* ---------------- what the collaborators may answer ---------------- *)
\* caption fragments the transcript service returns
Fragments == {<<"hello", "world">>}
\* embedding vectors of the embeddings endpoint
Vectors == {<<1, 2>>}
\* topic lists of the chat endpoint: the lines of the reply
TopicLists == {<<<<"B", "e", "e", "r", " ">>, <<"j", "o", "k", "e", "s">>,
                 <<"b", "e", "e", "r">>>>}
\* summaries of the chat endpoint
Summaries == {[words |-> "S", quotes |-> <<"q1">>]}
\* advisor notes of the structured endpoint
NoteLists == {<<[key |-> "clint", content |-> "Good job bud"]>>}

\* a fault is injected only while the budget lasts
MayFault == budget.faults > 0
Charge(b, faulty) == IF faulty THEN [b EXCEPT !.faults = @ - 1] ELSE b

(* ---------------- run_program_once: the loop body ---------------- *)
\* load_last_video_data: json.load of the file when it exists, which raises
\* when the content is not valid JSON; [] when there is no file
load_last_video_data(name) ==
  IF name \in damaged THEN [raised |-> TRUE, ret |-> <<>>]
  ELSE [raised |-> FALSE, ret |-> files[name]]

\* last_video_data = load_last_video_data(...): nothing catches what it raises
LoadLastVideoData ==
  /\ pc = "load"
  /\ LET r == load_last_video_data(youtuber.name)
     IN /\ loc' = [NoLocals EXCEPT !.last_video_data = r.ret]
        /\ pc' = IF r.raised THEN "crashed" ELSE "feed"
        /\ exc' = IF r.raised THEN "JSONDecodeError" ELSE exc
  /\ ft' = NoFetch
  /\ ev' = <<"load_last_video_data">>
  /\ started' = started \cup {i}
  /\ UNCHANGED <<mode, i, config, files, tfiles, db, outbox, feed, budget, snap, api,
                 damaged, processed, outside>>

\* mutant: an empty feed yields a default entry
fetch_new_video_default(entries) ==
  IF Len(entries) > 0 THEN Some(entries[1]) ELSE Some(Entry(0))

\* fetch_new_video: feed.entries[0], None when the feed has no entries
fetch_new_video(entries) ==
  IF Len(entries) > 0 THEN Some(entries[1]) ELSE Nothing

\* what feedparser.parse does when the feed cannot be fetched or parsed: it
\* returns a result without entries (bozo set), or the error of the transfer
\* leaves it (only urllib's URLError is caught inside the library)
ParseFailures == {"bozo", "raise"}

\* new_video = fetch_new_video(...); if new_video: ... The feed's newest entry
\* is any video of the channel (a later one may have been taken down) or a
\* video uploaded just now; the feed may also come back without entries, or
\* the fetch fails. Nothing around feedparser.parse catches what it raises.
FetchNewVideo ==
  /\ pc = "feed"
  /\ \E n \in {0} \cup Range(feed[youtuber.name])
               \cup (IF budget.uploads > 0 THEN {Uploaded + 1} ELSE {}),
        outcome \in {"ok"} \cup (IF MayFault THEN ParseFailures ELSE {}) :
       LET fresh == n = Uploaded + 1
           entries == IF n = 0 THEN <<>> ELSE <<Entry(n)>>
       IN /\ outcome # "ok" => n = 0
          /\ feed' = IF fresh THEN [feed EXCEPT ![youtuber.name] = Append(@, n)] ELSE feed
          /\ budget' = Charge(IF fresh THEN [budget EXCEPT !.uploads = @ - 1] ELSE budget,
                              outcome # "ok")
          /\ loc' = [loc EXCEPT !.entries = entries, !.feed_failed = outcome # "ok",
                                !.new_video = IF outcome = "raise" THEN Nothing
                                              ELSE fetch_new_video(entries)]
          /\ ev' = Append(ev, "fetch_new_video")
          /\ exc' = IF outcome = "raise" THEN "RemoteDisconnected" ELSE exc
          /\ pc' = IF outcome = "raise" THEN "crashed"
                   ELSE IF loc'.new_video # Nothing THEN "gate" ELSE "next"
  /\ UNCHANGED <<mode, i, ft, config, files, tfiles, db, outbox, started, snap, api,
                 damaged, processed, outside>>

\* mutant: the history is searched by title
IsNewByTitle(last_video_data, video_id) ==
  ~ \E k \in 1..Len(last_video_data) : last_video_data[k].title = video_id

\* mutant: only the most recent history entry is compared
IsNewLastOnly(last_video_data, video_id) ==
  \/ last_video_data = <<>>
  \/ last_video_data[Len(last_video_data)].id # video_id

\* not any(video['id'] == video_id for video in last_video_data)
IsNew(last_video_data, video_id) ==
  ~ \E k \in 1..Len(last_video_data) : last_video_data[k].id = video_id

DedupGate ==
  /\ pc = "gate"
  /\ pc' = IF IsNew(loc.last_video_data, loc.new_video[1].yt_videoid)
           THEN "persist_video" ELSE "next"
  /\ UNCHANGED <<mode, i, loc, ft, exc, config, files, tfiles, db, outbox, feed,
                 budget, ev, started, snap, api, damaged, processed, outside>>

\* what a write to the database does: it commits, or sqlite3 raises (the file
\* is locked or cannot be written)
Commits == {"ok", "raise"}

\* mutant: the history file is written as soon as the video row is stored
PersistVideoRecordsFirst ==
  /\ pc = "persist_video"
  /\ \E w \in {"ok"} \cup (IF MayFault THEN Commits ELSE {}) :
       LET nv == loc.new_video[1]
           c == get_or_create_channel(db, youtuber.channel_id, youtuber.name)
           v == store_video(c.db, nv.yt_videoid, c.ret, nv.title, nv.published,
                            nv.media_thumbnail)
       IN /\ db' = IF w = "ok" THEN v.db ELSE c.db
          /\ loc' = IF w = "ok" THEN [loc EXCEPT !.channel_id = c.ret, !.db_video_id = v.ret]
                    ELSE [loc EXCEPT !.channel_id = c.ret]
          /\ budget' = Charge(budget, w # "ok")
          /\ exc' = IF w = "ok" THEN exc ELSE "OperationalError"
          /\ ft' = IF w = "ok" THEN [NoFetch EXCEPT !.attempt = 1] ELSE ft
          /\ pc' = IF w = "ok" THEN "fetch_transcript" ELSE "crashed"
  /\ files' = [files EXCEPT ![youtuber.name] =
                 Append(loc.last_video_data,
                        [id |-> loc.new_video[1].yt_videoid, title |-> loc.new_video[1].title,
                         published |-> loc.new_video[1].published])]
  /\ ev' = ev \o <<"get_or_create_channel", "store_video">>
  /\ UNCHANGED <<mode, i, config, tfiles, outbox, feed, started, snap, api,
                 damaged, processed, outside>>

\* db.get_or_create_channel, then db.store_video; nothing catches what they raise
PersistVideo ==
  /\ pc = "persist_video"
  /\ \E w \in {"ok"} \cup (IF MayFault THEN Commits ELSE {}) :
       LET nv == loc.new_video[1]
           c == get_or_create_channel(db, youtuber.channel_id, youtuber.name)
           v == store_video(c.db, nv.yt_videoid, c.ret, nv.title, nv.published,
                            nv.media_thumbnail)
       IN /\ db' = IF w = "ok" THEN v.db ELSE c.db
          /\ loc' = IF w = "ok" THEN [loc EXCEPT !.channel_id = c.ret, !.db_video_id = v.ret]
                    ELSE [loc EXCEPT !.channel_id = c.ret]
          /\ budget' = Charge(budget, w # "ok")
          /\ exc' = IF w = "ok" THEN exc ELSE "OperationalError"
          /\ ft' = IF w = "ok" THEN [NoFetch EXCEPT !.attempt = 1] ELSE ft
          /\ pc' = IF w = "ok" THEN "fetch_transcript" ELSE "crashed"
  /\ ev' = ev \o <<"get_or_create_channel", "store_video">>
  /\ UNCHANGED <<mode, i, config, files, tfiles, outbox, feed, started, snap, api,
                 damaged, processed, outside>>

(* ---------------- fetch_transcript ---------------- *)
\* what YouTubeTranscriptApi.get_transcript does on one call
Answers ==
  {[kind |-> "ok", frags |-> f] : f \in Fragments \cup {<<>>}}
    \cup {[kind |-> k, frags |-> <<>>] : k \in {"disabled", "error"}}

\* an answer the environment's budget pays for: an exception, or no captions
Faulty(answer) == answer.kind # "ok" \/ answer.frags = <<>>

\* mutant: CouldNotRetrieveTranscript is handled like any other exception
FetchAttemptRetryDisabled(f, answer, retries, delay) ==
  LET called == [f EXCEPT !.calls = @ + 1, !.log = Append(@, answer)]
  IN CASE answer.kind = "ok" ->
            [called EXCEPT !.returned = TRUE, !.result = Some(Join(answer.frags)),
                           !.failed = @ \/ answer.frags = <<>>]
       [] OTHER ->
            IF f.attempt < retries
            THEN [called EXCEPT !.sleeps = Append(@, delay), !.attempt = @ + 1,
                                !.failed = TRUE]
            ELSE [called EXCEPT !.returned = TRUE, !.result = Nothing, !.failed = TRUE]

\* mutant: the sleep is not guarded by attempt < retries
FetchAttemptSleepLast(f, answer, retries, delay) ==
  LET called == [f EXCEPT !.calls = @ + 1, !.log = Append(@, answer)]
  IN CASE answer.kind = "ok" ->
            [called EXCEPT !.returned = TRUE, !.result = Some(Join(answer.frags)),
                           !.failed = @ \/ answer.frags = <<>>]
       [] answer.kind = "disabled" ->
            [called EXCEPT !.returned = TRUE, !.result = Nothing, !.failed = TRUE]
       [] OTHER ->
            IF f.attempt < retries
            THEN [called EXCEPT !.sleeps = Append(@, delay), !.attempt = @ + 1,
                                !.failed = TRUE]
            ELSE [called EXCEPT !.sleeps = Append(@, delay), !.returned = TRUE,
                                !.result = Nothing, !.failed = TRUE]

\* mutant: the sleep grows with the attempt
FetchAttemptBackoff(f, answer, retries, delay) ==
  LET called == [f EXCEPT !.calls = @ + 1, !.log = Append(@, answer)]
  IN CASE answer.kind = "ok" ->
            [called EXCEPT !.returned = TRUE, !.result = Some(Join(answer.frags)),
                           !.failed = @ \/ answer.frags = <<>>]
       [] answer.kind = "disabled" ->
            [called EXCEPT !.returned = TRUE, !.result = Nothing, !.failed = TRUE]
       [] OTHER ->
            IF f.attempt < retries
            THEN [called EXCEPT !.sleeps = Append(@, delay * f.attempt), !.attempt = @ + 1,
                                !.failed = TRUE]
            ELSE [called EXCEPT !.returned = TRUE, !.result = Nothing, !.failed = TRUE]

\* mutant: the exception of the last attempt is raised again
FetchAttemptReraise(f, answer, retries, delay) ==
  LET called == [f EXCEPT !.calls = @ + 1, !.log = Append(@, answer)]
  IN CASE answer.kind = "ok" ->
            [called EXCEPT !.returned = TRUE, !.result = Some(Join(answer.frags)),
                           !.failed = @ \/ answer.frags = <<>>]
       [] answer.kind = "disabled" ->
            [called EXCEPT !.returned = TRUE, !.result = Nothing, !.failed = TRUE]
       [] OTHER ->
            IF f.attempt < retries
            THEN [called EXCEPT !.sleeps = Append(@, delay), !.attempt = @ + 1,
                                !.failed = TRUE]
            ELSE [called EXCEPT !.raised = TRUE, !.failed = TRUE]

\* one iteration of  for attempt in range(1, retries + 1)
FetchAttempt(f, answer, retries, delay) ==
  LET called == [f EXCEPT !.calls = @ + 1, !.log = Append(@, answer)]
  IN CASE answer.kind = "ok" ->
            [called EXCEPT !.returned = TRUE, !.result = Some(Join(answer.frags)),
                           !.failed = @ \/ answer.frags = <<>>]
       [] answer.kind = "disabled" ->
            [called EXCEPT !.returned = TRUE, !.result = Nothing, !.failed = TRUE]
       [] OTHER ->
            IF f.attempt < retries
            THEN [called EXCEPT !.sleeps = Append(@, delay), !.attempt = @ + 1,
                                !.failed = TRUE]
            ELSE [called EXCEPT !.returned = TRUE, !.result = Nothing, !.failed = TRUE]

\* transcript = fetch_transcript(video_id): called with nothing around it that
\* would catch an exception
FetchTranscript ==
  /\ pc = "fetch_transcript"
  /\ \E answer \in Answers :
       /\ Faulty(answer) => (ft.failed \/ MayFault)
       /\ ft' = FetchAttempt(ft, answer, Retries, Delay)
       /\ budget' = Charge(budget, Faulty(answer) /\ ~ft.failed)
  /\ ev' = IF ft.calls = 0 THEN Append(ev, "fetch_transcript") ELSE ev
  /\ loc' = IF ft'.returned THEN [loc EXCEPT !.transcript = ft'.result] ELSE loc
  /\ pc' = IF ft'.raised THEN "crashed"
           ELSE IF ft'.returned THEN "handle_transcript" ELSE "fetch_transcript"
  /\ exc' = IF ft'.raised THEN "TranscriptError" ELSE exc
  /\ UNCHANGED <<mode, i, config, files, tfiles, db, outbox, feed, started, snap, api,
                 damaged, processed, outside>>

\* Python truth of an optional sequence: neither None nor empty
Truthy(opt) == opt # Nothing /\ opt[1] # <<>>

\* save_transcript_to_file: one text file per (youtuber, title, published)
save_transcript_to_file(fs, transcript, youtuber_name, video_title, video_published) ==
  LET path == <<youtuber_name, video_title, video_published>>
  IN {f \in fs : f.path # path} \cup {[path |-> path, content |-> transcript]}

\* if transcript: save to file and db.store_transcript (nothing catches what
\* it raises); else the placeholder
HandleTranscript ==
  /\ pc = "handle_transcript"
  /\ IF Truthy(loc.transcript)
     THEN \E w \in {"ok"} \cup (IF MayFault THEN Commits ELSE {}) :
            /\ tfiles' = save_transcript_to_file(tfiles, loc.transcript[1], youtuber.name,
                            loc.new_video[1].title, loc.new_video[1].published)
            /\ db' = IF w = "ok" THEN store_transcript(db, loc.db_video_id, loc.transcript[1])
                     ELSE db
            /\ ev' = ev \o <<"save_transcript_to_file", "store_transcript">>
            /\ loc' = loc
            /\ budget' = Charge(budget, w # "ok")
            /\ exc' = IF w = "ok" THEN exc ELSE "OperationalError"
            /\ pc' = IF w = "ok" THEN "embedding" ELSE "crashed"
     ELSE /\ loc' = [loc EXCEPT !.summary = Some(NoTranscriptFound)]
          /\ pc' = "notify"
          /\ UNCHANGED <<tfiles, db, ev, budget, exc>>
  /\ UNCHANGED <<mode, i, ft, config, files, outbox, feed, started, snap, api, damaged,
                 processed, outside>>

(* ---------------- the artifact generators ---------------- *)
\* mutant: generate_embedding without its try/except
GenerateEmbeddingRaises ==
  /\ pc = "embedding"
  /\ \E r \in {Some(v) : v \in Vectors} \cup (IF MayFault THEN {Nothing} ELSE {}) :
       /\ loc' = [loc EXCEPT !.embedding = r]
       /\ budget' = Charge(budget, r = Nothing)
       /\ db' = IF Truthy(r) THEN store_embedding(db, loc.db_video_id, r[1]) ELSE db
       /\ ev' = ev \o <<"generate_embedding">>
                   \o (IF Truthy(r) THEN <<"store_embedding">> ELSE <<>>)
       /\ pc' = IF r = Nothing THEN "crashed" ELSE "topics"
       /\ exc' = IF r = Nothing THEN "APIError" ELSE exc
  /\ UNCHANGED <<mode, i, ft, config, files, tfiles, outbox, feed, started, snap, api, damaged, processed, outside>>

\* generate_embedding: the vector, None when the call raised
GenerateEmbedding ==
  /\ pc = "embedding"
  /\ \E r \in {Some(v) : v \in Vectors} \cup (IF MayFault THEN {Nothing} ELSE {}) :
       /\ loc' = [loc EXCEPT !.embedding = r]
       /\ budget' = Charge(budget, r = Nothing)
       /\ db' = IF Truthy(r) THEN store_embedding(db, loc.db_video_id, r[1]) ELSE db
       /\ ev' = ev \o <<"generate_embedding">>
                   \o (IF Truthy(r) THEN <<"store_embedding">> ELSE <<>>)
  /\ pc' = "topics"
  /\ UNCHANGED <<mode, i, ft, exc, config, files, tfiles, outbox, feed, started, snap, api, damaged, processed, outside>>

\* for topic in topics: topic_ids.append(db.get_or_create_topic(topic))
RECURSIVE StoreTopics(_, _)
StoreTopics(d, topics) ==
  IF topics = <<>> THEN [db |-> d, ret |-> <<>>]
  ELSE LET t == get_or_create_topic(d, Head(topics))
           rest == StoreTopics(t.db, Tail(topics))
       IN [db |-> rest.db, ret |-> <<t.ret>> \o rest.ret]

\* extract_topics: the lines of the reply, [] when the call raised
ExtractTopics ==
  /\ pc = "topics"
  /\ \E r \in TopicLists \cup (IF MayFault THEN {<<>>} ELSE {}) :
       LET st == StoreTopics(db, r)
       IN /\ loc' = [loc EXCEPT !.topics = r]
          /\ budget' = Charge(budget, r = <<>>)
          /\ db' = link_video_topics(st.db, loc.db_video_id, st.ret)
  /\ ev' = ev \o <<"extract_topics", "link_video_topics">>
  /\ pc' = "summary"
  /\ UNCHANGED <<mode, i, ft, exc, config, files, tfiles, outbox, feed, started, snap, api, damaged, processed, outside>>

\* mutant: the placeholder is stored as the video's summary
HandleSummaryStoresPlaceholder ==
  /\ pc = "summary"
  /\ IF youtuber.openai_enabled
     THEN \E r \in {Some(t) : t \in Summaries} \cup (IF MayFault THEN {Nothing} ELSE {}) :
            /\ budget' = Charge(budget, r = Nothing)
            /\ db' = store_summary(db, loc.db_video_id,
                                   IF r # Nothing THEN r[1] ELSE NoSummaryAvailable)
            /\ loc' = [loc EXCEPT !.summarized = r, !.summary =
                         IF r # Nothing THEN r ELSE Some(NoSummaryAvailable)]
            /\ ev' = ev \o <<"summarize_text">>
                        \o (IF r # Nothing THEN <<"store_summary">> ELSE <<>>)
     ELSE /\ loc' = [loc EXCEPT !.summary = Some(OpenAIDisabled)]
          /\ UNCHANGED <<budget, db, ev>>
  /\ pc' = "advisor"
  /\ UNCHANGED <<mode, i, ft, exc, config, files, tfiles, outbox, feed, started, snap, api, damaged, processed, outside>>

\* summarize_text when openai_enabled: the text, None when the call raised
HandleSummary ==
  /\ pc = "summary"
  /\ IF youtuber.openai_enabled
     THEN \E r \in {Some(t) : t \in Summaries} \cup (IF MayFault THEN {Nothing} ELSE {}) :
            /\ budget' = Charge(budget, r = Nothing)
            /\ db' = IF r # Nothing THEN store_summary(db, loc.db_video_id, r[1]) ELSE db
            /\ loc' = [loc EXCEPT !.summarized = r, !.summary =
                         IF r # Nothing THEN r ELSE Some(NoSummaryAvailable)]
            /\ ev' = ev \o <<"summarize_text">>
                        \o (IF r # Nothing THEN <<"store_summary">> ELSE <<>>)
     ELSE /\ loc' = [loc EXCEPT !.summary = Some(OpenAIDisabled)]
          /\ UNCHANGED <<budget, db, ev>>
  /\ pc' = "advisor"
  /\ UNCHANGED <<mode, i, ft, exc, config, files, tfiles, outbox, feed, started, snap, api, damaged, processed, outside>>

\* generate_advisor_notes: the notes, [] when the call raised
AdvisorNotes ==
  /\ pc = "advisor"
  /\ \E r \in NoteLists \cup (IF MayFault THEN {<<>>} ELSE {}) :
       /\ loc' = [loc EXCEPT !.advisor_notes = r]
       /\ budget' = Charge(budget, r = <<>>)
       /\ db' = IF r # <<>> THEN store_advisor_notes(db, loc.db_video_id, r) ELSE db
       /\ ev' = ev \o <<"generate_advisor_notes">>
                   \o (IF r # <<>> THEN <<"store_advisor_notes">> ELSE <<>>)
  /\ pc' = "notify"
  /\ UNCHANGED <<mode, i, ft, exc, config, files, tfiles, outbox, feed, started, snap, api, damaged, processed, outside>>


(* ---------------- send_discord_notification ---------------- *)
\* f"@everyone **New Video:** {video_url}\n\n**Summary:** {summary}"
Message(video_url, summary) ==
  <<"@everyone **New Video:** ", video_url, "\n\n**Summary:** ", summary>>

\* what webhook.execute() does: a status code, or it raises (no connection)
Deliveries == {"200", "500", "raise"}

\* mutant: the history file is written before the message is posted
SendNotificationHistoryFirst ==
  /\ pc = "notify"
  /\ files' = [files EXCEPT ![youtuber.name] =
                 Append(loc.last_video_data,
                        [id |-> loc.new_video[1].yt_videoid, title |-> loc.new_video[1].title,
                         published |-> loc.new_video[1].published])]
  /\ ev' = ev \o <<"save_last_video_data", "send_discord_notification">>
  /\ pc' = "record"
  /\ UNCHANGED <<mode, i, loc, ft, exc, config, tfiles, db, outbox, feed, budget,
                 started, snap, api, damaged, processed, outside>>

\* mutant: a status other than 200 is answered with a second POST
SendNotificationRetry ==
  /\ pc = "notify"
  /\ IF config.discord_webhook_url = ""
     THEN /\ pc' = "record"
          /\ ev' = Append(ev, "send_discord_notification")
          /\ UNCHANGED <<outbox, budget, exc>>
     ELSE \E r \in {"200"} \cup (IF MayFault THEN Deliveries ELSE {}) :
            LET post == [url |-> config.discord_webhook_url,
                         content |-> Message(loc.new_video[1].link, loc.summary[1]),
                         status |-> r]
            IN /\ budget' = Charge(budget, r # "200")
               /\ outbox' = IF r = "raise" THEN outbox
                            ELSE IF r = "200" THEN Append(outbox, post)
                            ELSE outbox \o <<post, post>>
               /\ ev' = ev \o <<"send_discord_notification", "execute">>
               /\ exc' = IF r = "raise" THEN "ConnectionError" ELSE exc
               /\ pc' = IF r = "raise" THEN "crashed" ELSE "record"
  /\ UNCHANGED <<mode, i, loc, ft, config, files, tfiles, db, feed, started, snap, api, damaged, processed, outside>>

\* mutant: without a webhook URL the rest of the loop body is skipped
SendNotificationNoHookSkips ==
  /\ pc = "notify"
  /\ IF config.discord_webhook_url = ""
     THEN /\ pc' = "next"
          /\ ev' = Append(ev, "send_discord_notification")
          /\ UNCHANGED <<outbox, budget, exc>>
     ELSE \E r \in {"200"} \cup (IF MayFault THEN Deliveries ELSE {}) :
            /\ budget' = Charge(budget, r # "200")
            /\ outbox' = IF r = "raise" THEN outbox
                         ELSE Append(outbox,
                                [url |-> config.discord_webhook_url,
                                 content |-> Message(loc.new_video[1].link, loc.summary[1]),
                                 status |-> r])
            /\ ev' = ev \o <<"send_discord_notification", "execute">>
            /\ exc' = IF r = "raise" THEN "ConnectionError" ELSE exc
            /\ pc' = IF r = "raise" THEN "crashed" ELSE "record"
  /\ UNCHANGED <<mode, i, loc, ft, config, files, tfiles, db, feed, started, snap, api, damaged, processed, outside>>

\* without a webhook URL the summary is printed; otherwise one POST, whose
\* status is logged
SendNotification ==
  /\ pc = "notify"
  /\ IF config.discord_webhook_url = ""
     THEN /\ pc' = "record"
          /\ ev' = Append(ev, "send_discord_notification")
          /\ UNCHANGED <<outbox, budget, exc>>
     ELSE \E r \in {"200"} \cup (IF MayFault THEN Deliveries ELSE {}) :
            /\ budget' = Charge(budget, r # "200")
            /\ outbox' = IF r = "raise" THEN outbox
                         ELSE Append(outbox,
                                [url |-> config.discord_webhook_url,
                                 content |-> Message(loc.new_video[1].link, loc.summary[1]),
                                 status |-> r])
            /\ ev' = ev \o <<"send_discord_notification", "execute">>
            /\ exc' = IF r = "raise" THEN "ConnectionError" ELSE exc
            /\ pc' = IF r = "raise" THEN "crashed" ELSE "record"
  /\ UNCHANGED <<mode, i, loc, ft, config, files, tfiles, db, feed, started, snap, api, damaged, processed, outside>>

(* ---------------- the dedup history ---------------- *)
\* mutant: the cap is tested off by one
RecordOffByOne(last_video_data, new_video) ==
  LET appended == Append(last_video_data,
                    [id |-> new_video.yt_videoid, title |-> new_video.title,
                     published |-> new_video.published])
  IN IF Len(appended) > HistoryCap + 1 THEN Tail(appended) ELSE appended

\* mutant: pop() in place of pop(0), the newest entry is dropped
RecordPopLast(last_video_data, new_video) ==
  LET appended == Append(last_video_data,
                    [id |-> new_video.yt_videoid, title |-> new_video.title,
                     published |-> new_video.published])
  IN IF Len(appended) > HistoryCap THEN SubSeq(appended, 1, Len(appended) - 1)
     ELSE appended

\* last_video_data.append({...}); if len(last_video_data) > 5: pop(0)
Record(last_video_data, new_video) ==
  LET appended == Append(last_video_data,
                    [id |-> new_video.yt_videoid, title |-> new_video.title,
                     published |-> new_video.published])
  IN IF Len(appended) > HistoryCap THEN Tail(appended) ELSE appended

\* save_last_video_data: the file is overwritten with the list
save_last_video_data(fs, name, video_data) == [fs EXCEPT ![name] = video_data]

UpdateHistory ==
  /\ pc = "record"
  /\ LET last_video_data == Record(loc.last_video_data, loc.new_video[1])
     IN /\ loc' = [loc EXCEPT !.last_video_data = last_video_data]
        /\ files' = save_last_video_data(files, youtuber.name, last_video_data)
        /\ processed' = [processed EXCEPT ![youtuber.name] =
                           Append(@, [id |-> loc.new_video[1].yt_videoid,
                                      title |-> loc.new_video[1].title,
                                      published |-> loc.new_video[1].published])]
  /\ damaged' = damaged \ {youtuber.name}
  /\ ev' = Append(ev, "save_last_video_data")
  /\ pc' = "next"
  /\ UNCHANGED <<mode, i, ft, exc, config, tfiles, db, outbox, feed, budget, started, snap,
                 api, outside>>

\* the end of the loop body: the next youtuber, or run_program_once returns
NextYoutuber ==
  /\ pc = "next"
  /\ IF i < Len(Youtubers)
     THEN /\ i' = i + 1
          /\ pc' = "load"
     ELSE /\ i' = i
          /\ pc' = IF mode = "continuous" THEN "sleep" ELSE "menu"
  /\ loc' = NoLocals /\ ft' = NoFetch /\ ev' = <<>>
  /\ snap' = Durable
  /\ UNCHANGED <<mode, exc, config, files, tfiles, db, outbox, feed, budget, started, api, damaged, processed, outside>>

(* ---------------- run_program_continuously ---------------- *)
\* the 60 one-second slices pass without Enter: the next cycle starts
SleepElapsed ==
  /\ pc = "sleep"
  /\ budget.cycles > 0
  /\ pc' = "load"
  /\ i' = 1
  /\ started' = {}
  /\ budget' = [budget EXCEPT !.cycles = @ - 1]
  /\ UNCHANGED <<mode, loc, ft, exc, config, files, tfiles, db, outbox, feed, ev, snap, api, damaged, processed, outside>>

\* Enter during the sleep: return to the menu
OperatorInterrupt ==
  /\ pc = "sleep"
  /\ pc' = "menu"
  /\ UNCHANGED <<mode, i, loc, ft, exc, config, files, tfiles, db, outbox, feed,
                 budget, ev, started, snap, api, damaged, processed, outside>>

\* an uncaught exception ended the process; the operator starts it again
Relaunch ==
  /\ pc = "crashed"
  /\ pc' = "menu"
  /\ exc' = NoExc
  /\ loc' = NoLocals /\ ft' = NoFetch /\ ev' = <<>>
  /\ snap' = Durable
  /\ UNCHANGED <<mode, i, config, files, tfiles, db, outbox, feed, budget, started, api, damaged, processed, outside>>

\* between two cycles a history file that exists loses its content's validity
\* (a write cut short, an edit by hand, a disk error)
DamageHistoryFile ==
  /\ pc \in {"menu", "sleep"}
  /\ MayFault
  /\ \E n \in Names :
       /\ files[n] # <<>>
       /\ n \notin damaged
       /\ damaged' = damaged \cup {n}
  /\ budget' = Charge(budget, TRUE)
  /\ UNCHANGED <<pc, mode, i, loc, ft, exc, config, files, tfiles, db, outbox, feed, ev,
                 started, snap, api, processed, outside>>

\* the steps of a process that is running
RunSteps ==
  \/ StartRun
  \/ LoadLastVideoData
  \/ FetchNewVideo
  \/ DedupGate
  \/ PersistVideo
  \/ FetchTranscript
  \/ HandleTranscript
  \/ GenerateEmbedding
  \/ ExtractTopics
  \/ HandleSummary
  \/ AdvisorNotes
  \/ SendNotification
  \/ UpdateHistory
  \/ NextYoutuber
  \/ SleepElapsed
  \/ OperatorInterrupt

Next == RunSteps \/ Relaunch \/ DamageHistoryFile

Spec == Init /\ [][Next]_vars

\* long runs of a fault-free environment: nothing raises, so the process is
\* never started again
SpecDedup == InitDedup /\ [][RunSteps]_vars


(* ---------------- the DatabaseManager called on its own ---------------- *)
\* the gateway is also called outside run_program_once (load_recent_videos,
\* the reprocess_* functions, the web application): any caller, any arguments
InitDb ==
  /\ pc = "db"
  /\ mode = "once"
  /\ i = 0
  /\ loc = NoLocals
  /\ ft = NoFetch
  /\ exc = NoExc
  /\ config = [discord_webhook_url |-> ""]
  /\ files = [n \in Names |-> <<>>]
  /\ tfiles = {}
  /\ db = EmptyDb
  /\ outbox = <<>>
  /\ feed = [n \in Names |-> <<>>]
  /\ budget = [cycles |-> 0, uploads |-> 0, faults |-> 0, calls |-> MaxDbCalls]
  /\ ev = <<>>
  /\ started = {}
  /\ snap = [files |-> files, tfiles |-> tfiles, db |-> db, outbox |-> outbox]
  /\ api = NoApi
  /\ damaged = {}
  /\ processed = [n \in Names |-> <<>>]
  /\ ix = NoIndex
  /\ rp = NoPass
  /\ web = NoWeb

\* what a call leaves unchanged
DbFrame ==
  /\ pc = "db"
  /\ budget.calls > 0
  /\ budget' = [budget EXCEPT !.calls = @ - 1]
  /\ UNCHANGED <<pc, mode, i, loc, ft, exc, config, files, tfiles, outbox, feed, ev,
                 started, snap, damaged, processed, outside>>

\* the first call about a key is kept, later calls are counted
Noted(first, call) ==
  IF first = Nothing THEN Some([call EXCEPT !.calls = 1])
  ELSE Some([first[1] EXCEPT !.calls = @ + 1])

\* db.store_video(youtube_id, channel_id, title, published_date, thumbnail_url)
DbStoreVideo ==
  /\ DbFrame
  /\ \E n \in 1..MaxDbVideos, changed \in BOOLEAN :
       LET channel_id == IF changed THEN 2 ELSE 1
           title == IF changed THEN <<"retitled", n>> ELSE Entry(n).title
           published == IF changed THEN <<"republished", n>> ELSE Entry(n).published
           r == store_video(db, Entry(n).yt_videoid, channel_id, title, published,
                            Entry(n).media_thumbnail)
           call == [op |-> "store_video", ret |-> r.ret, raised |-> r.raised,
                    channel_id |-> channel_id, title |-> title, published |-> published,
                    calls |-> 0]
       IN /\ db' = r.db
          /\ api' = [api EXCEPT !.video[n] = Noted(@, call), !.last = Some(call)]

\* db.get_or_create_channel(youtube_id, name)
DbGetOrCreateChannel ==
  /\ DbFrame
  /\ \E youtube_id \in {"UCa", "UCb"}, name \in {"a", "renamed"} :
       LET r == get_or_create_channel(db, youtube_id, name)
           call == [op |-> "get_or_create_channel", ret |-> r.ret, raised |-> FALSE,
                    name |-> name, calls |-> 0]
       IN /\ db' = r.db
          /\ api' = [api EXCEPT !.channel[youtube_id] = Noted(@, call), !.last = Some(call)]

\* the topic names callers pass
TopicNames ==
  {<<"B", "e", "e", "r", " ">>, <<"b", "e", "e", "r">>, <<" ", "b", "e", "e", "r">>,
   <<"j", "o", "k", "e", "s">>, <<"J", "o", "k", "e", "s">>}

\* db.get_or_create_topic(topic_name)
DbGetOrCreateTopic ==
  /\ DbFrame
  /\ \E topic_name \in TopicNames :
       LET r == get_or_create_topic(db, topic_name)
           call == [op |-> "get_or_create_topic", ret |-> r.ret, raised |-> FALSE,
                    name |-> topic_name]
       IN /\ db' = r.db
          /\ api' = [api EXCEPT !.topic = @ \cup {call}, !.last = Some(call)]

\* the vectors callers store
DbVectors == {<<1, 2>>, <<3, 4>>, <<>>}

\* db.store_embedding(video_id, embedding) for a stored video
DbStoreEmbedding ==
  /\ DbFrame
  /\ \E k \in 1..Len(db.video), embedding \in DbVectors :
       LET video_id == db.video[k].id
           call == [op |-> "store_embedding", ret |-> 0, raised |-> FALSE,
                    video_id |-> video_id, embedding |-> embedding]
       IN /\ db' = store_embedding(db, video_id, embedding)
          /\ api' = [api EXCEPT !.embedding[video_id] =
                                  Some([embedding |-> embedding,
                                        calls |-> IF @ = Nothing THEN 1 ELSE @[1].calls + 1]),
                                !.last = Some(call)]

DbSteps ==
  \/ DbStoreVideo
  \/ DbGetOrCreateChannel
  \/ DbGetOrCreateTopic
  \/ DbStoreEmbedding

SpecDb == InitDb /\ [][DbSteps]_vars


(* ---------------- embedding_index.py ---------------- *)
\* the embedding vectors of the index specification (one dimension throughout,
\* as the vectors of one embedding model are)
IxVectors == {<<0, 0>>, <<0, 1>>, <<1, 0>>, <<1, 1>>}

\* IndexFlatL2: the squared L2 distance of two vectors
Dist(a, b) == SeqSum([k \in 1..Len(a) |-> (a[k] - b[k]) * (a[k] - b[k])])

\* index.search(q, k): k result slots, nearest first (the lower position first
\* among equals), positions counted from 0; a slot the index cannot fill
\* carries position -1 and FLT_MAX
RECURSIVE search(_, _, _, _)
search(vectors, q, k, taken) ==
  IF k = 0 THEN <<>>
  ELSE LET rest == (1..Len(vectors)) \ taken
       IN IF rest = {}
          THEN <<[idx |-> -1, dist |-> FltMax]>> \o search(vectors, q, k - 1, taken)
          ELSE LET best == CHOOSE j \in rest :
                             \A m \in rest :
                               \/ Dist(vectors[j], q) < Dist(vectors[m], q)
                               \/ Dist(vectors[j], q) = Dist(vectors[m], q) /\ j <= m
               IN <<[idx |-> best - 1, dist |-> Dist(vectors[best], q)]>>
                    \o search(vectors, q, k - 1, taken \cup {best})

\* a Python list read at an index, which may be negative
ListAt(list, idx) == IF idx < 0 THEN list[Len(list) + idx + 1] ELSE list[idx + 1]

\* mutant: the ids are taken in ascending order, not in the order of the rows
load_index_sorted(rows) ==
  IF rows = <<>> THEN [d |-> 0, vectors |-> <<>>, id_list |-> <<>>]
  ELSE LET ids == {rows[k].video_id : k \in 1..Len(rows)}
       IN [d |-> Len(json_loads(rows[1].embedding)),
           vectors |-> [k \in 1..Len(rows) |-> json_loads(rows[k].embedding)],
           id_list |-> [k \in 1..Len(rows) |->
                          CHOOSE v \in ids : Cardinality({w \in ids : w < v}) = k - 1]]

\* load_index: an empty index of dimension 0 when there are no rows; else the
\* json.loads of every row's embedding added in order, and the ids in order
load_index(rows) ==
  IF rows = <<>> THEN [d |-> 0, vectors |-> <<>>, id_list |-> <<>>]
  ELSE [d |-> Len(json_loads(rows[1].embedding)),
        vectors |-> [k \in 1..Len(rows) |-> json_loads(rows[k].embedding)],
        id_list |-> [k \in 1..Len(rows) |-> rows[k].video_id]]

\* add_embedding: a new index when the dimension is still 0, then index.add
\* and id_list.append
add_embedding(index, video_id, embedding) ==
  [d |-> IF index.d = 0 THEN Len(embedding) ELSE index.d,
   vectors |-> Append(index.vectors, embedding),
   id_list |-> Append(index.id_list, video_id)]

\* find_similar: [] for an empty index; else for every slot of the search
\* whose idx < len(id_list) the pair (id_list[idx], dist)
find_similar(index, query_vec, k) ==
  IF index.vectors = <<>> THEN <<>>
  ELSE LET slots == search(index.vectors, query_vec, k, {})
           kept == SelectSeq(slots, LAMBDA sl : sl.idx < Len(index.id_list))
       IN [n \in 1..Len(kept) |->
             [id |-> ListAt(index.id_list, kept[n].idx), dist |-> kept[n].dist]]

InitIndex ==
  /\ pc = "ix"
  /\ mode = "once"
  /\ i = 0
  /\ loc = NoLocals
  /\ ft = NoFetch
  /\ exc = NoExc
  /\ config = [discord_webhook_url |-> ""]
  /\ files = [n \in Names |-> <<>>]
  /\ tfiles = {}
  /\ db = EmptyDb
  /\ outbox = <<>>
  /\ feed = [n \in Names |-> <<>>]
  /\ budget = [cycles |-> 0, uploads |-> 0, faults |-> 0]
  /\ ev = <<>>
  /\ started = {}
  /\ snap = [files |-> files, tfiles |-> tfiles, db |-> db, outbox |-> outbox]
  /\ api = NoApi
  /\ damaged = {}
  /\ processed = [n \in Names |-> <<>>]
  /\ ix = NoIndex
  /\ rp = NoPass
  /\ web = NoWeb

\* what the index operations leave unchanged
IxFrame ==
  /\ pc = "ix"
  /\ UNCHANGED <<pc, mode, i, loc, ft, exc, config, files, tfiles, db, outbox, feed, budget,
                 ev, started, snap, api, damaged, processed, rp, web>>

\* index, ids = load_index(db) over the rows of the video_embedding table:
\* one row per video, the embedding as json.dumps wrote it
IxLoadIndex ==
  /\ IxFrame
  /\ \E n \in 0..MaxIxRows :
       \E vecs \in [1..n -> IxVectors], ids \in [1..n -> 1..MaxIxRows] :
         /\ \A j, k \in 1..n : j # k => ids[j] # ids[k]
         /\ LET rows == [k \in 1..n |->
                          [video_id |-> ids[k], embedding |-> json_dumps(vecs[k])]]
                index == load_index(rows)
            IN ix' = [d |-> index.d, vectors |-> index.vectors, id_list |-> index.id_list,
                      rows |-> [k \in 1..n |-> [video_id |-> ids[k], embedding |-> vecs[k]]],
                      results |-> Nothing]

\* index = add_embedding(index, ids, video_id, embedding) for a video that is
\* not in the index
IxAddEmbedding ==
  /\ IxFrame
  /\ Len(ix.id_list) < MaxIxRows
  /\ \E video_id \in (1..MaxIxRows) \ Range(ix.id_list), embedding \in IxVectors :
       LET index == add_embedding(ix, video_id, embedding)
       IN ix' = [d |-> index.d, vectors |-> index.vectors, id_list |-> index.id_list,
                 rows |-> Append(ix.rows, [video_id |-> video_id, embedding |-> embedding]),
                 results |-> Nothing]

\* find_similar(index, ids, query_vec, k)
IxFindSimilar ==
  /\ IxFrame
  /\ \E query_vec \in IxVectors, k \in 1..DefaultK :
       ix' = [ix EXCEPT !.results =
                Some([query_vec |-> query_vec, k |-> k,
                      ret |-> find_similar(ix, query_vec, k)])]

IxSteps ==
  \/ IxLoadIndex
  \/ IxAddEmbedding
  \/ IxFindSimilar

SpecIndex == InitIndex /\ [][IxSteps]_vars


(* ---------------- reprocess_missing_transcripts / reprocess_missing_content ---------------- *)
MaxPasses == 2
MaxRpVideos == 2
MaxRpRows == 2

\* the row of the SELECT list for video v of channel c
RpRow(v, c) ==
  [id |-> v.id, youtube_id |-> v.youtube_id, title |-> v.title,
   channel_name |-> c.name, channel_id |-> c.id,
   youtube_created_at |-> v.youtube_created_at]

\* mutant: every video is listed, with or without a transcript
get_videos_all(d) ==
  [k \in 1..Len(d.video) |->
     RpRow(d.video[k], SelectSeq(d.channel, LAMBDA r : r.id = d.video[k].channel_id)[1])]

\* FROM video v JOIN channel c LEFT JOIN transcript t WHERE t.content IS NULL:
\* one row per video that has a channel row and no transcript row (a stored
\* content is never NULL: store_transcript is called with a truthy text only)
get_videos_without_transcript(d) ==
  LET vs == SelectSeq(d.video, LAMBDA v :
              /\ \E c \in 1..Len(d.channel) : d.channel[c].id = v.channel_id
              /\ ~ \E t \in 1..Len(d.transcript) : d.transcript[t].video_id = v.id)
  IN [k \in 1..Len(vs) |->
        RpRow(vs[k], SelectSeq(d.channel, LAMBDA r : r.id = vs[k].channel_id)[1])]

\* FROM video v JOIN channel c JOIN transcript t LEFT JOIN summary s WHERE
\* s.content IS NULL: one row per transcript row of a video without a summary
get_videos_without_summary(d) ==
  LET ts == SelectSeq(d.transcript, LAMBDA t :
              /\ \E k \in 1..Len(d.video) :
                   /\ d.video[k].id = t.video_id
                   /\ \E c \in 1..Len(d.channel) : d.channel[c].id = d.video[k].channel_id
              /\ ~ \E u \in 1..Len(d.summary) : d.summary[u].video_id = t.video_id)
  IN [k \in 1..Len(ts) |->
        LET v == SelectSeq(d.video, LAMBDA r : r.id = ts[k].video_id)[1]
            c == SelectSeq(d.channel, LAMBDA r : r.id = v.channel_id)[1]
        IN [id |-> v.id, youtube_id |-> v.youtube_id, title |-> v.title,
            channel_name |-> c.name, channel_id |-> c.id,
            youtube_channel_id |-> c.youtube_id,
            youtube_created_at |-> v.youtube_created_at, transcript |-> ts[k].content]]

\* next((y for y in config['youtubers'] if y['channel_id'] == key), None)
channel_config(key) == SelectSeq(Youtubers, LAMBDA y : y.channel_id = key)

\* the database the check cycles leave: video n of youtuber (n mod 2), with
\* rows[n] transcript rows
RECURSIVE RpDb(_, _)
RpDb(n, rows) ==
  IF n = 0 THEN EmptyDb
  ELSE LET d == RpDb(n - 1, rows)
           y == Youtubers[((n - 1) % Len(Youtubers)) + 1]
           c == get_or_create_channel(d, y.channel_id, y.name)
           e == Entry(n)
           v == store_video(c.db, e.yt_videoid, c.ret, e.title, e.published,
                            e.media_thumbnail)
       IN [v.db EXCEPT !.transcript =
             @ \o [k \in 1..rows[n] |-> [video_id |-> v.ret, content |-> Join(<<"hello">>)]]]

InitReprocess ==
  /\ pc = "rp_menu"
  /\ mode = "once"
  /\ i = 0
  /\ loc = NoLocals
  /\ ft = NoFetch
  /\ exc = NoExc
  /\ config = [discord_webhook_url |-> ""]
  /\ files = [n \in Names |-> <<>>]
  /\ tfiles = {}
  /\ db \in {RpDb(MaxRpVideos, rows) : rows \in [1..MaxRpVideos -> 0..MaxRpRows]}
  /\ outbox = <<>>
  /\ feed = [n \in Names |-> <<>>]
  /\ budget = [cycles |-> 0, uploads |-> 0, faults |-> 0]
  /\ ev = <<>>
  /\ started = {}
  /\ snap = [files |-> files, tfiles |-> tfiles, db |-> db, outbox |-> outbox]
  /\ api = NoApi
  /\ damaged = {}
  /\ processed = [n \in Names |-> <<>>]
  /\ ix = NoIndex
  /\ rp = [NoPass EXCEPT !.db0 = db.transcript, !.passes = MaxPasses]
  /\ web = NoWeb

RpFrame ==
  UNCHANGED <<mode, i, loc, ft, exc, config, files, outbox, feed, budget, ev, started,
              snap, api, damaged, processed, ix, web>>

\* the videos without a transcript row
Untranscribed(d) ==
  {d.video[k].id : k \in {j \in 1..Len(d.video) :
                            ~ \E t \in 1..Len(d.transcript) :
                                d.transcript[t].video_id = d.video[j].id}}

\* the operator picks a reprocessing function; it reads the lists, returns when
\* they are empty, else asks "Process all ...? (y/n)"
RpBegin ==
  /\ pc = "rp_menu"
  /\ rp.passes > 0
  /\ \E fn \in {"reprocess_missing_transcripts", "reprocess_missing_content"} :
       LET vs == get_videos_without_transcript(db)
           ss == IF fn = "reprocess_missing_content"
                 THEN get_videos_without_summary(db) ELSE <<>>
       IN \E all \in (IF vs = <<>> /\ ss = <<>> THEN {FALSE} ELSE BOOLEAN) :
            /\ rp' = [rp EXCEPT !.fn = fn, !.videos = vs, !.no_summary = ss, !.at = 1,
                                !.process_all = all, !.stored = <<>>,
                                !.passes = @ - 1, !.began = Untranscribed(db)]
            /\ pc' = IF vs # <<>> THEN "rp_loop"
                     ELSE IF ss # <<>> THEN "rp_summary" ELSE "rp_menu"
  /\ UNCHANGED <<db, tfiles>>
  /\ RpFrame

\* what input() returns to "Process ...? (y/n/all/q)"
RpAnswers == {"y", "n", "all", "q"}

\* one iteration of the loop over the videos without a transcript
RpVideo ==
  /\ pc = "rp_loop"
  /\ rp.at <= Len(rp.videos)
  /\ LET video == rp.videos[rp.at]
     IN \E answer \in (IF rp.process_all THEN {"y"} ELSE RpAnswers) :
          IF answer = "q"
          THEN /\ rp' = [rp EXCEPT !.at = Len(rp.videos) + 1]
               /\ UNCHANGED <<pc, db, tfiles>>
          ELSE IF answer = "n"
          THEN /\ rp' = [rp EXCEPT !.at = @ + 1]
               /\ UNCHANGED <<pc, db, tfiles>>
          ELSE \E r \in {"text", "none", "raise"} :
                 LET transcript == IF r = "text" THEN Some(Join(<<"hello", "world">>))
                                   ELSE Nothing
                 IN
                 IF r = "raise"
                 THEN /\ pc' = "rp_menu"
                      /\ rp' = [rp EXCEPT !.process_all = @ \/ answer = "all"]
                      /\ UNCHANGED <<db, tfiles>>
                 ELSE IF ~ Truthy(transcript)
                 THEN /\ rp' = [rp EXCEPT !.at = @ + 1, !.process_all = @ \/ answer = "all"]
                      /\ UNCHANGED <<pc, db, tfiles>>
                 ELSE \E embedding \in {Nothing} \cup {Some(v) : v \in Vectors},
                         topics \in {<<>>} \cup TopicLists,
                         summary \in {Nothing} \cup {Some(x) : x \in Summaries} :
                        LET d1 == store_transcript(db, video.id, transcript[1])
                            d2 == IF Truthy(embedding)
                                  THEN store_embedding(d1, video.id, embedding[1]) ELSE d1
                            t == StoreTopics(d2, topics)
                            d3 == link_video_topics(t.db, video.id, t.ret)
                            cc == channel_config(ToString(video.channel_id))
                            d4 == IF cc # <<>> /\ cc[1].openai_enabled /\ Truthy(summary)
                                  THEN store_summary(d3, video.id, summary[1]) ELSE d3
                        IN /\ tfiles' = save_transcript_to_file(tfiles, transcript[1],
                                          video.channel_name, video.title,
                                          video.youtube_created_at)
                           /\ db' = d4
                           /\ rp' = [rp EXCEPT !.at = @ + 1,
                                               !.process_all = @ \/ answer = "all",
                                               !.stored = Append(@, video.id)]
                           /\ pc' = pc
  /\ RpFrame

\* the loop over the videos without a transcript is over: the function returns,
\* or reprocess_missing_content asks about the videos without a summary
RpEndLoop ==
  /\ pc = "rp_loop"
  /\ rp.at > Len(rp.videos)
  /\ IF rp.fn = "reprocess_missing_content" /\ rp.no_summary # <<>>
     THEN \E all \in BOOLEAN :
            /\ rp' = [rp EXCEPT !.at = 1, !.process_all = all]
            /\ pc' = "rp_summary"
     ELSE /\ pc' = "rp_menu"
          /\ rp' = rp
  /\ UNCHANGED <<db, tfiles>>
  /\ RpFrame

\* one iteration of the loop over the videos without a summary
RpSummary ==
  /\ pc = "rp_summary"
  /\ rp.at <= Len(rp.no_summary)
  /\ LET video == rp.no_summary[rp.at]
         cc == channel_config(video.youtube_channel_id)
     IN \E answer \in (IF rp.process_all THEN {"y"} ELSE RpAnswers),
           summary \in {Nothing} \cup {Some(x) : x \in Summaries} :
          /\ rp' = [rp EXCEPT !.at = IF answer = "q" THEN Len(rp.no_summary) + 1 ELSE @ + 1,
                              !.process_all = @ \/ answer = "all"]
          /\ db' = IF /\ answer \in {"y", "all"}
                      /\ cc # <<>>
                      /\ cc[1].openai_enabled
                      /\ video.transcript # <<>>
                      /\ Truthy(summary)
                   THEN store_summary(db, video.id, summary[1]) ELSE db
  /\ UNCHANGED <<pc, tfiles>>
  /\ RpFrame

RpEndSummary ==
  /\ pc = "rp_summary"
  /\ rp.at > Len(rp.no_summary)
  /\ pc' = "rp_menu"
  /\ UNCHANGED <<db, tfiles, rp>>
  /\ RpFrame

RpSteps == RpBegin \/ RpVideo \/ RpEndLoop \/ RpSummary \/ RpEndSummary

SpecReprocess == InitReprocess /\ [][RpSteps]_vars


(* ---------------- web.py: register ---------------- *)
MaxRequests == 2

\* the invite codes a form may carry: one that was generated, one that was not
Codes == {"c1", "bad"}
Usernames == {"u1", "u2", "u 3"}
Emails == {"e1", "e2"}
Passwords == {"longenough", "short"}

\* the user table rejects a second row with the same username or email: the
\* handler of web.py:205-206 reports sqlite3.IntegrityError in these words
user_username_email_unique == TRUE

\* re.match(r'^[a-zA-Z0-9_]+$', username)
username_ok(username) == username \in {"u1", "u2"}

\* len(password) >= 8
password_ok(password) == password = "longenough"

\* SELECT id FROM invite_code WHERE code = ? AND used = 0
validate_invite_code(w, code) ==
  \E k \in 1..Len(w.invite_code) :
    w.invite_code[k].code = code /\ w.invite_code[k].used = 0

\* UPDATE invite_code SET used = 1 WHERE code = ?
mark_invite_code_used(w, code) ==
  [w EXCEPT !.invite_code =
     [k \in 1..Len(@) |-> IF @[k].code = code THEN [@[k] EXCEPT !.used = 1] ELSE @[k]]]

\* INSERT INTO user (username, email, password_hash); returns lastrowid
create_user(w, username, email, password_hash) ==
  IF /\ user_username_email_unique
     /\ \E k \in 1..Len(w.user) :
          w.user[k].username = username \/ w.user[k].email = email
  THEN [web |-> w, ret |-> 0, raised |-> TRUE]
  ELSE [web |-> [w EXCEPT !.user =
                   Append(@, [id |-> Len(w.user) + 1, username |-> username,
                              email |-> email, password_hash |-> password_hash])],
        ret |-> Len(w.user) + 1, raised |-> FALSE]

NoRequest ==
  [at |-> "idle", username |-> "", email |-> "", password |-> "", invite_code |-> "",
   user_id |-> 0, response |-> ""]

InitWeb ==
  /\ pc = "web"
  /\ mode = "once"
  /\ i = 0
  /\ loc = NoLocals
  /\ ft = NoFetch
  /\ exc = NoExc
  /\ config = [discord_webhook_url |-> ""]
  /\ files = [n \in Names |-> <<>>]
  /\ tfiles = {}
  /\ db = EmptyDb
  /\ outbox = <<>>
  /\ feed = [n \in Names |-> <<>>]
  /\ budget = [cycles |-> 0, uploads |-> 0, faults |-> 0]
  /\ ev = <<>>
  /\ started = {}
  /\ snap = [files |-> files, tfiles |-> tfiles, db |-> db, outbox |-> outbox]
  /\ api = NoApi
  /\ damaged = {}
  /\ processed = [n \in Names |-> <<>>]
  /\ ix = NoIndex
  /\ rp = NoPass
  /\ web = [NoWeb EXCEPT !.invite_code = <<[code |-> "c1", used |-> 0]>>,
                         !.request = [r \in 1..MaxRequests |-> NoRequest]]

WebFrame ==
  /\ pc = "web"
  /\ UNCHANGED <<pc, mode, i, loc, ft, exc, config, files, tfiles, db, outbox, feed, budget,
                 ev, started, snap, api, damaged, processed, ix, rp>>

\* a POST to /register arrives and its form is read; the server handles each
\* request in a thread of its own
WebPost(r) ==
  /\ WebFrame
  /\ web.request[r].at = "idle"
  /\ \E u \in Usernames, e \in Emails, p \in Passwords, c \in Codes :
       web' = [web EXCEPT !.request[r] =
                 [NoRequest EXCEPT !.at = "validate", !.username = u, !.email = e,
                                   !.password = p, !.invite_code = c]]

\* db.validate_invite_code, then the checks of the username and the password
WebValidate(r) ==
  /\ WebFrame
  /\ web.request[r].at = "validate"
  /\ LET q == web.request[r]
         error == IF ~ validate_invite_code(web, q.invite_code)
                  THEN "Invalid or used invite code"
                  ELSE IF ~ username_ok(q.username) THEN "Username can only contain"
                  ELSE IF ~ password_ok(q.password) THEN "Password must be"
                  ELSE ""
     IN web' = [web EXCEPT !.request[r] =
                  IF error = "" THEN [q EXCEPT !.at = "create_user"]
                  ELSE [q EXCEPT !.at = "done", !.response = error]]

\* db.create_user; sqlite3.IntegrityError is answered with an error page
WebCreateUser(r) ==
  /\ WebFrame
  /\ web.request[r].at = "create_user"
  /\ LET q == web.request[r]
         c == create_user(web, q.username, q.email, <<"hash", q.password>>)
     IN web' = IF c.raised
               THEN [web EXCEPT !.request[r] =
                       [q EXCEPT !.at = "done",
                                 !.response = "Username or email already exists"]]
               ELSE [c.web EXCEPT !.request[r] =
                       [q EXCEPT !.at = "mark_used", !.user_id = c.ret]]

\* db.mark_invite_code_used, then the redirect to the index page
WebMarkUsed(r) ==
  /\ WebFrame
  /\ web.request[r].at = "mark_used"
  /\ web' = [mark_invite_code_used(web, web.request[r].invite_code) EXCEPT
               !.request[r] = [web.request[r] EXCEPT !.at = "done", !.response = "redirect"]]

WebSteps ==
  \E r \in 1..MaxRequests :
    WebPost(r) \/ WebValidate(r) \/ WebCreateUser(r) \/ WebMarkUsed(r)

SpecWeb == InitWeb /\ [][WebSteps]_vars


(* ======================= the claims ======================= *)
InEv(call) == \E k \in 1..Len(ev) : ev[k] = call

\* the history file of the current youtuber when the loop body began
HistoryBefore == snap.files[youtuber.name]

\* the loop body for the current youtuber has run to its end
BodyDone == pc = "next" /\ InEv("fetch_new_video")

\* the feed's newest entry, and whether its id is in the history of before
FeedHasEntry == loc.entries # <<>>
InHistoryBefore ==
  \E k \in 1..Len(HistoryBefore) : HistoryBefore[k].id = loc.entries[1].yt_videoid

\* the last answer of the transcript service
LastAnswer == ft.log[Len(ft.log)]
TranscriptFetched == ft.log # <<>> /\ LastAnswer.kind = "ok" /\ LastAnswer.frags # <<>>

VideoRows(yt) == SelectSeq(db.video, LAMBDA r : r.youtube_id = yt)
ChannelRows(yt) == SelectSeq(db.channel, LAMBDA r : r.youtube_id = yt)

\* the tables of the derived artifacts
Artifacts(d) ==
  <<d.transcript, d.summary, d.quote, d.video_embedding, d.topic, d.video_topic,
    d.advisor_note>>

\* exactly one message was posted since the loop body began, with this content
PostedOnce(content) ==
  /\ Len(outbox) = Len(snap.outbox) + 1
  /\ SubSeq(outbox, 1, Len(snap.outbox)) = snap.outbox
  /\ outbox[Len(outbox)].content = content
  /\ outbox[Len(outbox)].url = config.discord_webhook_url

HistoryEndsWith(yt) ==
  LET h == files[youtuber.name]
  IN h # <<>> /\ h[Len(h)].id = yt

\* C1 precondition: a new video, and every collaborator answered with a result
C1_Case ==
  /\ BodyDone
  /\ FeedHasEntry /\ ~InHistoryBefore
  /\ TranscriptFetched
  /\ loc.embedding # Nothing
  /\ loc.topics # <<>>
  /\ loc.summary \in {Some(t) : t \in Summaries}
  /\ loc.advisor_notes # <<>>
  /\ config.discord_webhook_url # ""

\* C1: a new video whose transcript, summary, topics, embedding and advisor
\* notes are all obtained: when the loop body ends there is one Channel row and
\* one Video row for it, the transcript, summary, topic links, embedding and
\* advisor notes are stored under that Video's local id, exactly one message
\* with the video link and the summary was posted, and the history file ends
\* with the video.
C1_HappyPath ==
  C1_Case =>
    LET e == loc.entries[1]
        vrows == VideoRows(e.yt_videoid)
        crows == ChannelRows(youtuber.channel_id)
        vid == vrows[1].id
    IN /\ Len(crows) = 1
       /\ Len(vrows) = 1
       /\ vrows[1].channel_id = crows[1].id
       /\ \E k \in 1..Len(db.transcript) :
            db.transcript[k] = [video_id |-> vid, content |-> Join(LastAnswer.frags)]
       /\ \E k \in 1..Len(db.summary) :
            db.summary[k] = [video_id |-> vid, content |-> loc.summary[1]]
       /\ get_embedding(db, vid) = loc.embedding
       /\ \A k \in 1..Len(loc.topics) :
            \E t \in Range(db.topic) :
              /\ t.name = Strip(Lower(loc.topics[k]))
              /\ [video_id |-> vid, topic_id |-> t.id] \in db.video_topic
       /\ \A k \in 1..Len(loc.advisor_notes) :
            \E n \in 1..Len(db.advisor_note) :
              db.advisor_note[n] = [video_id |-> vid, key |-> loc.advisor_notes[k].key,
                                    content |-> loc.advisor_notes[k].content]
       /\ PostedOnce(Message(e.link, loc.summary[1]))
       /\ HistoryEndsWith(e.yt_videoid)

C1_Witness == C1_Case /\ db.advisor_note # <<>> /\ outbox # <<>>

\* C2 precondition: a new video whose transcript fetch returned None
C2_Case ==
  /\ BodyDone
  /\ FeedHasEntry /\ ~InHistoryBefore
  /\ ft.log # <<>> /\ LastAnswer.kind # "ok"

\* C2: when fetch_transcript returns None for a new video, the loop body ends
\* with the Video row present, no artifact table touched, the history file
\* ending with the video, and (with a webhook configured) exactly one message
\* whose summary is "No transcript found.".
C2_NoTranscript ==
  C2_Case =>
    LET e == loc.entries[1]
    IN /\ Len(VideoRows(e.yt_videoid)) = 1
       /\ Artifacts(db) = Artifacts(snap.db)
       /\ tfiles = snap.tfiles
       /\ HistoryEndsWith(e.yt_videoid)
       /\ IF config.discord_webhook_url # ""
          THEN PostedOnce(Message(e.link, Text("No transcript found.")))
          ELSE outbox = snap.outbox

C2_Witness ==
  C2_Case /\ config.discord_webhook_url # "" /\ Len(outbox) = Len(snap.outbox) + 1

\* C3: when a check cycle has ended, by returning or by an exception, the loop
\* body has been started for every configured youtuber.
C3_Isolation ==
  (pc \in {"menu", "sleep", "crashed"} /\ started # {})
    => started = 1..Len(Youtubers)

\* C4: when the feed's newest entry is already in the history file, the loop
\* body leaves the database, the files and the webhook as they were, in every
\* cycle.
C4_GateIdempotent ==
  (BodyDone /\ FeedHasEntry /\ InHistoryBefore) => Durable = snap

C4_Witness ==
  BodyDone /\ FeedHasEntry /\ InHistoryBefore /\ budget.cycles = 0

\* C5: for a youtuber whose feed has no entries, the loop body leaves the
\* database, the files and the webhook as they were.
C5_NoEntryNoWrite ==
  (BodyDone /\ ~FeedHasEntry) => Durable = snap

C5_Witness == BodyDone /\ ~FeedHasEntry /\ db.video # <<>>

\* C6: every Video has at most one Transcript row.
C6_OneTranscript ==
  \A v \in 1..Len(db.video) :
    Cardinality({k \in 1..Len(db.transcript) : db.transcript[k].video_id = db.video[v].id}) <= 1

\* the history file of the current youtuber was full when this loop body began
\* and the body recorded a new video
C7_Case == pc = "next" /\ InEv("save_last_video_data") /\ Len(HistoryBefore) = HistoryCap

\* C7: a history file never holds more than 5 entries; recording into a full
\* one drops the entry at index 0, appends the new one, and leaves 5.
C7_HistoryCap ==
  /\ \A n \in Names : Len(files[n]) <= 5
  /\ Len(loc.last_video_data) <= 5
  /\ C7_Case =>
       LET h == files[youtuber.name]
       IN /\ Len(h) = 5
          /\ SubSeq(h, 1, 4) = Tail(HistoryBefore)
          /\ h[5].id = loc.entries[1].yt_videoid

C7_Witness == C7_Case

AllKind(log, kind) == \A k \in 1..Len(log) : log[k].kind = kind

\* C8: when the transcript service answers "could not retrieve", fetch_transcript
\* returns None at once: no sleep follows that answer and no further call is
\* made; on the first attempt that is exactly one call and no sleep at all.
C8_DisabledNoRetry ==
  (ft.log # <<>> /\ LastAnswer.kind = "disabled") =>
    /\ ft.returned /\ ft.result = Nothing
    /\ pc # "fetch_transcript"
    /\ ft.calls = Len(ft.log)
    /\ Len(ft.sleeps) = Len(ft.log) - 1
    /\ (AllKind(ft.log, "disabled") => (ft.calls = 1 /\ ft.sleeps = <<>>))

C8_Witness ==
  ft.log # <<>> /\ AllKind(ft.log, "disabled") /\ ft.returned

\* C9: when every attempt fails with another exception, fetch_transcript makes
\* exactly `retries` calls, sleeps `delay` seconds after each but the last, and
\* then returns None.
C9_TransientExhausts ==
  (ft.log # <<>> /\ AllKind(ft.log, "error")) =>
    /\ Len(ft.log) <= 5
    /\ ft.calls = Len(ft.log)
    /\ ft.returned <=> (Len(ft.log) = 5)
    /\ ft.returned =>
         /\ ft.result = Nothing
         /\ ft.sleeps = <<2, 2, 2, 2>>
         /\ pc # "fetch_transcript"
    /\ ~ft.returned => ft.sleeps = [k \in 1..Len(ft.log) |-> 2]

C9_Witness == ft.log # <<>> /\ AllKind(ft.log, "error") /\ ft.returned

GeneratorCalls ==
  {"generate_embedding", "extract_topics", "summarize_text", "generate_advisor_notes"}

\* a transcript was stored in this loop body and exactly one generator failed
C10_Case ==
  /\ BodyDone
  /\ TranscriptFetched
  /\ FeedHasEntry /\ ~InHistoryBefore
  /\ Cardinality({g \in {"e", "t", "s", "a"} :
        \/ g = "e" /\ loc.embedding = Nothing
        \/ g = "t" /\ loc.topics = <<>>
        \/ g = "s" /\ loc.summary = Some(NoSummaryAvailable)
        \/ g = "a" /\ loc.advisor_notes = <<>>}) = 1

\* C10: a generator's failure never ends the process; in a loop body that got
\* a transcript, every generator is called whatever the others returned (the
\* summarizer when summarization is on for the youtuber), every result obtained
\* is stored, the notification is sent and the history file is written.
C10_GeneratorIsolation ==
  /\ pc = "crashed" => (ev # <<>> /\ ev[Len(ev)] \notin GeneratorCalls)
  /\ (BodyDone /\ FeedHasEntry /\ ~InHistoryBefore /\ TranscriptFetched) =>
       LET vid == VideoRows(loc.entries[1].yt_videoid)[1].id
       IN /\ InEv("generate_embedding") /\ InEv("extract_topics")
          /\ InEv("generate_advisor_notes")
          /\ InEv("summarize_text") <=> youtuber.openai_enabled
          /\ loc.embedding # Nothing => get_embedding(db, vid) = loc.embedding
          /\ \A k \in 1..Len(loc.topics) :
               \E t \in Range(db.topic) :
                 /\ t.name = Strip(Lower(loc.topics[k]))
                 /\ [video_id |-> vid, topic_id |-> t.id] \in db.video_topic
          /\ loc.summary \in {Some(t) : t \in Summaries} =>
               \E k \in 1..Len(db.summary) :
                 db.summary[k] = [video_id |-> vid, content |-> loc.summary[1]]
          /\ \A k \in 1..Len(loc.advisor_notes) :
               \E n \in 1..Len(db.advisor_note) :
                 db.advisor_note[n] = [video_id |-> vid, key |-> loc.advisor_notes[k].key,
                                       content |-> loc.advisor_notes[k].content]
          /\ InEv("send_discord_notification")
          /\ config.discord_webhook_url # "" =>
               PostedOnce(Message(loc.entries[1].link, loc.summary[1]))
          /\ HistoryEndsWith(loc.entries[1].yt_videoid)

C10_Witness == C10_Case /\ loc.embedding = Nothing /\ db.advisor_note # <<>>


\* the positions of a call in the current loop body
Pos(call) == {k \in 1..Len(ev) : ev[k] = call}

\* the calls that write a derived artifact
ArtifactWrites ==
  {"save_transcript_to_file", "store_transcript", "store_embedding", "link_video_topics",
   "store_summary", "store_advisor_notes"}

\* C11: in a loop body the Video row is stored before the transcript is
\* fetched, every artifact is written before the notification is sent, and the
\* history file is written only after the notification.
C11_StepOrder ==
  /\ \A t \in Pos("fetch_transcript") :
       /\ \E v \in Pos("store_video") : v < t
       /\ VideoRows(loc.new_video[1].yt_videoid) # <<>>
  /\ \A w \in 1..Len(ev) : \A n \in Pos("send_discord_notification") :
       ev[w] \in ArtifactWrites \cup {"store_video"} => w < n
  /\ \A h \in Pos("save_last_video_data") :
       /\ \E n \in Pos("send_discord_notification") : n < h
       /\ \A k \in 1..Len(ev) : k <= h
  /\ files # snap.files => InEv("send_discord_notification")

C11_Witness ==
  /\ pc = "next"
  /\ InEv("store_advisor_notes") /\ InEv("store_summary") /\ InEv("execute")
  /\ InEv("save_last_video_data")


\* the local ids of the Video rows
VideoIds(d) == {d.video[k].id : k \in 1..Len(d.video)}

\* the video_id column of every row that depends on a Video
DependentVideoIds(d) ==
  {d.transcript[k].video_id : k \in 1..Len(d.transcript)}
    \cup {d.summary[k].video_id : k \in 1..Len(d.summary)}
    \cup {d.quote[k].video_id : k \in 1..Len(d.quote)}
    \cup {d.video_embedding[k].video_id : k \in 1..Len(d.video_embedding)}
    \cup {d.advisor_note[k].video_id : k \in 1..Len(d.advisor_note)}
    \cup {l.video_id : l \in d.video_topic}

\* the calls that insert a row depending on a Video
DependentWrites ==
  {"store_transcript", "store_embedding", "link_video_topics", "store_summary",
   "store_advisor_notes"}

\* C12: every Transcript, Summary, Embedding, AdvisorNote and Video-Topic row
\* references a Video row that exists, and in a loop body store_video comes
\* before every write of such a row.
C12_References ==
  /\ DependentVideoIds(db) \subseteq VideoIds(db)
  /\ \A l \in db.video_topic : \E t \in Range(db.topic) : t.id = l.topic_id
  /\ \A w \in 1..Len(ev) :
       ev[w] \in DependentWrites =>
         /\ \E v \in Pos("store_video") : v < w
         /\ loc.db_video_id \in VideoIds(db)

C12_Witness ==
  /\ Len(db.video) >= 2
  /\ db.transcript # <<>> /\ db.summary # <<>> /\ db.video_embedding # <<>>
  /\ db.advisor_note # <<>> /\ db.video_topic # {}
  /\ InEv("store_advisor_notes")


\* the rows of a video, of a channel
RowsOfVideo(n) == SelectSeq(db.video, LAMBDA r : r.youtube_id = Entry(n).yt_videoid)
RowsOfChannel(c) == SelectSeq(db.channel, LAMBDA r : r.youtube_id = c)

\* C13: however often store_video or get_or_create_channel is called with the
\* same external id, no call raises, every call returns the local id the first
\* call returned, and the table holds exactly one row for that external id,
\* with the title, publish timestamp and channel (the name, for a channel) the
\* first call passed.
C13_Idempotent ==
  /\ \A n \in 1..MaxDbVideos :
       api.video[n] # Nothing =>
         LET first == api.video[n][1]
             rows == RowsOfVideo(n)
         IN /\ Len(rows) = 1
            /\ rows[1].id = first.ret
            /\ rows[1].title = first.title
            /\ rows[1].youtube_created_at = first.published
            /\ rows[1].channel_id = first.channel_id
  /\ \A c \in {"UCa", "UCb"} :
       api.channel[c] # Nothing =>
         LET first == api.channel[c][1]
             rows == RowsOfChannel(c)
         IN /\ Len(rows) = 1
            /\ rows[1].id = first.ret
            /\ rows[1].name = first.name
  /\ (api.last # Nothing /\ api.last[1].op \in {"store_video", "get_or_create_channel"}) =>
       /\ ~api.last[1].raised
       /\ \E n \in 1..MaxDbVideos, c \in {"UCa", "UCb"} :
            \/ /\ api.last[1].op = "store_video"
               /\ api.video[n] # Nothing /\ api.video[n][1].ret = api.last[1].ret
            \/ /\ api.last[1].op = "get_or_create_channel"
               /\ api.channel[c] # Nothing /\ api.channel[c][1].ret = api.last[1].ret

C13_Witness ==
  /\ api.last # Nothing /\ api.last[1].op = "store_video"
  /\ \E n \in 1..MaxDbVideos :
       /\ api.video[n] # Nothing /\ api.video[n][1].calls >= 2
       /\ api.video[n][1].title # api.last[1].title
       /\ api.video[n][1].published # api.last[1].published
  /\ \E c \in {"UCa", "UCb"} : api.channel[c] # Nothing /\ api.channel[c][1].calls >= 2


\* the topic name as it is compared: lower case, no blanks around it
Normalized(name) == Strip(Lower(name))

\* C14: get_or_create_topic returns the same Topic row for any two names that
\* are equal after lower-casing and trimming ("Beer " and "beer"), the row
\* carries the normalized name, and no two Topic rows share a normalized name.
C14_TopicNormalized ==
  /\ \A p, q \in api.topic :
       Normalized(p.name) = Normalized(q.name) => p.ret = q.ret
  /\ \A p \in api.topic :
       \E k \in 1..Len(db.topic) :
         db.topic[k].id = p.ret /\ db.topic[k].name = Normalized(p.name)
  /\ \A j, k \in 1..Len(db.topic) :
       j # k => /\ Normalized(db.topic[j].name) # Normalized(db.topic[k].name)
                /\ db.topic[j].id # db.topic[k].id

C14_Witness ==
  /\ \E p, q \in api.topic :
       /\ p.name = <<"B", "e", "e", "r", " ">>
       /\ q.name = <<"b", "e", "e", "r">>
  /\ Len(db.topic) = 2


\* C20: after any sequence of store_embedding calls a Video has at most one
\* embedding row, and get_embedding returns the vector of the most recent
\* store_embedding for that Video (None when there was none).
C20_LastEmbedding ==
  \A v \in 1..MaxDbVideos :
    /\ Cardinality({k \in 1..Len(db.video_embedding) :
                      db.video_embedding[k].video_id = v}) <= 1
    /\ get_embedding(db, v) =
         IF api.embedding[v] = Nothing THEN Nothing
         ELSE Some(api.embedding[v][1].embedding)

C20_Witness ==
  /\ api.last # Nothing /\ api.last[1].op = "store_embedding"
  /\ api.last[1].embedding = <<3, 4>>
  /\ api.embedding[api.last[1].video_id][1].calls >= 2
  /\ Len(db.video) = 2


\* a message was posted in this loop body and the webhook answered with this status
Answered(status) ==
  Len(outbox) > Len(snap.outbox) /\ outbox[Len(outbox)].status = status

\* C15: a loop body posts at most one message; one that handles a new video
\* with a webhook configured has posted exactly one when it ends, whatever the
\* status; a status other than 200 raises nothing, is not followed by a second
\* POST, and the history file is still written.
C15_OneMessage ==
  /\ Len(outbox) <= Len(snap.outbox) + 1
  /\ Cardinality(Pos("execute")) <= 1
  /\ (BodyDone /\ FeedHasEntry /\ ~InHistoryBefore /\ config.discord_webhook_url # "") =>
       /\ PostedOnce(Message(loc.entries[1].link, loc.summary[1]))
       /\ HistoryEndsWith(loc.entries[1].yt_videoid)
  /\ Answered("500") =>
       /\ pc \in {"record", "next"}
       /\ exc = NoExc
       /\ pc = "next" => HistoryEndsWith(loc.entries[1].yt_videoid)

C15_Witness ==
  /\ BodyDone /\ Answered("500")
  /\ HistoryEndsWith(loc.entries[1].yt_videoid)


\* C16: loading a history file that exists but does not hold valid JSON gives
\* the empty history, and the loop body goes on to the feed.
C16_CorruptIsEmpty ==
  (Pos("load_last_video_data") # {} /\ youtuber.name \in damaged) =>
    /\ exc = NoExc
    /\ pc # "crashed"
    /\ loc.last_video_data = <<>>


\* C17: when fetching or parsing a youtuber's feed fails, the loop body ends as
\* for a feed without a new video: no exception, nothing written, no message.
C17_FeedFailureQuiet ==
  (InEv("fetch_new_video") /\ loc.feed_failed) =>
    /\ pc = "next"
    /\ exc = NoExc
    /\ loc.new_video = Nothing
    /\ Durable = snap


\* C18: in continuous mode control leaves run_program_continuously only from
\* the sleep between two cycles, on the operator's Enter, after the cycle has
\* gone over every configured youtuber: never from inside a cycle.
C18_ReturnsOnlyFromSleep ==
  [][(mode = "continuous" /\ pc \notin {"menu", "crashed"} /\ pc' \in {"menu", "crashed"})
       => (pc = "sleep" /\ pc' = "menu" /\ started = 1..Len(Youtubers))]_vars


\* C19: whatever the transcript service does, fetch_transcript makes at most
\* `retries` calls, raises nothing, and returns the joined text of the answer
\* or None; when it returns None the loop body goes on with the placeholder
\* summary, the notification and the history update.
C19_FetchNeverRaises ==
  /\ ~ft.raised
  /\ exc # "TranscriptError"
  /\ ft.calls <= 5 /\ Len(ft.log) = ft.calls /\ ft.attempt <= 5
  /\ (pc = "fetch_transcript") <=> (ft.attempt > 0 /\ ~ft.returned)
  /\ ft.returned =>
       /\ ft.result \in {Nothing, Some(Join(LastAnswer.frags))}
       /\ ft.result # Nothing <=> LastAnswer.kind = "ok"
  /\ (ft.returned /\ ft.result = Nothing) =>
       /\ pc \in {"handle_transcript", "notify", "record", "next", "crashed"}
       /\ pc = "crashed" => ev[Len(ev)] = "execute"
       /\ pc \in {"record", "next"} =>
            loc.summary = Some(Text("No transcript found.")) /\ InEv("send_discord_notification")
       /\ pc = "next" => HistoryEndsWith(loc.entries[1].yt_videoid)

C19_Witness ==
  /\ pc = "next" /\ ft.returned /\ ft.result = Nothing
  /\ ft.calls = 5
  /\ HistoryEndsWith(loc.entries[1].yt_videoid)


\* the stored embedding rows nearest to a query
NearestRows(q) ==
  {j \in 1..Len(ix.rows) :
     \A m \in 1..Len(ix.rows) : Dist(ix.rows[j].embedding, q) <= Dist(ix.rows[m].embedding, q)}

\* C21: on an index built from stored rows, find_similar with k = 1 returns
\* exactly one pair, the id of a row whose embedding is nearest to the query
\* with that distance; a query equal to a stored vector returns the id of a
\* row holding that vector, at distance 0.
C21_NearestFirst ==
  (ix.results # Nothing /\ ix.results[1].k = 1 /\ ix.rows # <<>>) =>
    LET q == ix.results[1].query_vec
        ret == ix.results[1].ret
    IN /\ Len(ret) = 1
       /\ \E j \in NearestRows(q) :
            /\ ret[1].id = ix.rows[j].video_id
            /\ ret[1].dist = Dist(ix.rows[j].embedding, q)
       /\ (\E m \in 1..Len(ix.rows) : ix.rows[m].embedding = q) =>
            /\ ret[1].dist = 0
            /\ \E j \in 1..Len(ix.rows) :
                 ix.rows[j].video_id = ret[1].id /\ ix.rows[j].embedding = q

C21_Witness ==
  /\ ix.results # Nothing /\ ix.results[1].k = 1
  /\ Len(ix.rows) = 2
  /\ ix.rows[1].video_id = 2
  /\ ix.results[1].query_vec = ix.rows[2].embedding
  /\ ix.rows[1].embedding # ix.rows[2].embedding
  /\ ix.results[1].ret[1].id = 1

\* C28: find_similar returns at most min(k, number of indexed vectors) pairs,
\* each the id of a distinct indexed video with its distance to the query.
C28_ResultBound ==
  ix.results # Nothing =>
    LET q == ix.results[1].query_vec
        k == ix.results[1].k
        ret == ix.results[1].ret
        n == Len(ix.rows)
    IN /\ Len(ret) <= (IF k < n THEN k ELSE n)
       /\ \A a, b \in 1..Len(ret) : a # b => ret[a].id # ret[b].id
       /\ \A a \in 1..Len(ret) :
            \E j \in 1..n :
              ix.rows[j].video_id = ret[a].id /\ ret[a].dist = Dist(ix.rows[j].embedding, q)


\* the answers before the last one
EarlierAnswers == SubSeq(ft.log, 1, Len(ft.log) - 1)

\* C22: when the first k-1 calls of the transcript service fail with a
\* transient error and call k (k <= 5) answers, fetch_transcript returns the
\* joined text after exactly k calls and k-1 sleeps of 2 seconds, and calls no
\* more.
C22_SucceedsOnAttemptK ==
  (ft.log # <<>> /\ LastAnswer.kind = "ok" /\ AllKind(EarlierAnswers, "error")) =>
    /\ Len(ft.log) <= 5
    /\ ft.returned
    /\ ft.result = Some(Join(LastAnswer.frags))
    /\ ft.calls = Len(ft.log)
    /\ ft.sleeps = [k \in 1..(Len(ft.log) - 1) |-> 2]
    /\ pc # "fetch_transcript"

C22_Witness ==
  /\ Len(ft.log) = 5 /\ LastAnswer.kind = "ok" /\ LastAnswer.frags # <<>>
  /\ AllKind(EarlierAnswers, "error")
  /\ pc = "next"


\* the last min(n, 5) entries of a sequence of n
LastFive(p) == SubSeq(p, (IF Len(p) > 5 THEN Len(p) - 5 ELSE 0) + 1, Len(p))

\* C23: a youtuber's history file holds the last min(n, 5) of the n videos
\* processed for that youtuber, in the order they were processed.
C23_HistoryIsTail ==
  \A n \in Names : files[n] = LastFive(processed[n])

C23_Witness ==
  \E n \in Names :
    /\ Len(processed[n]) = 7
    /\ processed[n][7].id = processed[n][1].id
    /\ files[n] = LastFive(processed[n])


\* C24 precondition: a new video with a transcript, summarization on for the
\* youtuber, and summarize_text returned None
C24_Case ==
  /\ BodyDone
  /\ FeedHasEntry /\ ~InHistoryBefore
  /\ TranscriptFetched
  /\ youtuber.openai_enabled
  /\ InEv("summarize_text") /\ loc.summarized = Nothing

\* C24: when the summarizer fails for a video with a transcript, no Summary row
\* (and no quote) is stored and the message posted carries "No summary
\* available." where the summary would be.
C24_SummarizerFails ==
  C24_Case =>
    /\ db.summary = snap.db.summary
    /\ db.quote = snap.db.quote
    /\ ~InEv("store_summary")
    /\ loc.summary = Some(Text("No summary available."))
    /\ config.discord_webhook_url # "" =>
         PostedOnce(Message(loc.entries[1].link, Text("No summary available.")))

C24_Witness ==
  C24_Case /\ config.discord_webhook_url # "" /\ outbox # <<>> /\ db.transcript # <<>>


\* the history file a loop body leaves after handling the feed's newest entry
HistoryAfter ==
  LastFive(Append(HistoryBefore,
                  [id |-> loc.entries[1].yt_videoid, title |-> loc.entries[1].title,
                   published |-> loc.entries[1].published]))

\* C25: without a webhook URL nothing is ever posted and the notifier ends no
\* loop body; a loop body that handled a new video leaves the history file
\* with the video appended, the same with and without a webhook URL.
C25_NoWebhook ==
  /\ config.discord_webhook_url = "" =>
       /\ outbox = <<>>
       /\ ~InEv("execute")
       /\ pc = "crashed" => ev[Len(ev)] # "send_discord_notification"
  /\ (BodyDone /\ FeedHasEntry /\ ~InHistoryBefore) =>
       /\ InEv("send_discord_notification")
       /\ files = [snap.files EXCEPT ![youtuber.name] = HistoryAfter]

C25_Witness ==
  /\ BodyDone /\ FeedHasEntry /\ ~InHistoryBefore
  /\ config.discord_webhook_url = ""
  /\ Len(files[youtuber.name]) = 2
  /\ db.summary # <<>>


\* C26: the history file changes only in the last step of a loop body that
\* handled a new video; when an exception ends a loop body the history files
\* are as they were when it began, and the video it was handling is not in the
\* youtuber's history, so the gate lets it pass in the next cycle.
C26_HistoryLast ==
  /\ files # snap.files =>
       /\ pc = "next"
       /\ ev[Len(ev)] = "save_last_video_data"
       /\ Cardinality(Pos("save_last_video_data")) = 1
  /\ pc = "crashed" =>
       /\ files = snap.files
       /\ InEv("store_video") =>
            ~ \E k \in 1..Len(files[youtuber.name]) :
                files[youtuber.name][k].id = loc.entries[1].yt_videoid

C26_Witness ==
  /\ pc = "crashed" /\ exc = "OperationalError"
  /\ InEv("store_transcript")
  /\ files[youtuber.name] # <<>>


\* C27: no video id appears twice in the history of a channel, in the file or
\* in the list a loop body holds.
NoDuplicateIds(h) == \A a, b \in 1..Len(h) : h[a].id = h[b].id => a = b

C27_NoDuplicates ==
  /\ \A n \in Names : NoDuplicateIds(files[n])
  /\ NoDuplicateIds(loc.last_video_data)

\* the gate has turned away a video that an earlier cycle recorded and that is
\* no longer the most recent entry of the history
C27_Witness ==
  /\ pc = "next" /\ FeedHasEntry /\ ~ InEv("store_video")
  /\ Len(files[youtuber.name]) >= 2
  /\ \E k \in 1..(Len(files[youtuber.name]) - 1) :
       files[youtuber.name][k].id = loc.entries[1].yt_videoid

\* the number of transcript rows of a video in a transcript table
TranscriptRows(table, video_id) ==
  Cardinality({k \in 1..Len(table) : table[k].video_id = video_id})

\* C29: a reprocessing pass stores a transcript only for videos that had no
\* transcript row when the pass began, and for none of them twice; however
\* many passes run, no video gets a second transcript row from them.
C29_ReprocessOnce ==
  /\ \A k \in 1..Len(rp.stored) : rp.stored[k] \in rp.began
  /\ \A a, b \in 1..Len(rp.stored) : rp.stored[a] = rp.stored[b] => a = b
  /\ \A v \in 1..Len(db.video) :
       LET before == TranscriptRows(rp.db0, db.video[v].id)
           now == TranscriptRows(db.transcript, db.video[v].id)
       IN now = IF before = 0 /\ now > 0 THEN 1 ELSE before

\* a second pass runs over a database in which the first pass stored a transcript
C29_Witness ==
  /\ rp.passes = 0
  /\ pc = "rp_loop"
  /\ rp.stored # <<>>
  /\ \E v \in 1..Len(db.video) :
       /\ TranscriptRows(rp.db0, db.video[v].id) = 0
       /\ db.video[v].id \notin rp.began

\* the requests that ended in a registration with this invite code
Registered(code) ==
  {r \in 1..MaxRequests :
     /\ web.request[r].response = "redirect"
     /\ web.request[r].invite_code = code}

\* C30: an invite code leads to at most one successful registration, also when
\* the requests that present it are handled at the same time.
C30_OneRegistrationPerCode ==
  \A k \in 1..Len(web.invite_code) :
    Cardinality(Registered(web.invite_code[k].code)) <= 1

====
